---- MODULE Spec2Model ----
(***************************************************************************)
(* Persistence-and-lifecycle engine of Product-Thing: the transcript       *)
(* writer, the suggestion dedup, the feature registry and the status       *)
(* lifecycle, modelled over the PostgreSQL tables the code reads and       *)
(* writes.  A database call is one action; a multi-statement transaction   *)
(* is run statement by statement inside the action so that a failure at    *)
(* any statement, and the ROLLBACK that follows it, are part of the call.  *)
(***************************************************************************)
EXTENDS Integers, Sequences, FiniteSets, TLC

\* ------------------------------------------------------------------ bounds
\* Calls per behaviour (the clock ticks once per call) and injected
\* database failures per behaviour.
MaxClock == 3
MaxFaults == 1
\* Successful migration runs (migrate or rollback) per behaviour.
MaxMigrations == 3
\* Transactions begun per behaviour when calls run concurrently.
MaxTransactions == 2

\* ------------------------------------------------------------ input values
Users == {"default", "other"}
Names == {"Slack", "slack", "Export"}
QuoteObjs == << [quote |-> "q1", painPoint |-> "p1"],
                [quote |-> "q2", painPoint |-> "p2"] >>
NULL == 0

\* SQL LOWER() on the feature names in use.
LOWER(name) ==
  CASE name = "Slack"  -> "slack"
    [] name = "slack"  -> "slack"
    [] name = "Export" -> "export"
    [] OTHER           -> name

Min(S) == CHOOSE x \in S : \A y \in S : x <= y
Max(S) == CHOOSE x \in S : \A y \in S : x >= y

\* One entry of features[] or newFeatureSuggestions[] with its first n quotes.
E(name, n) == [featureName |-> name, aiSummary |-> "ai", quotes |-> SubSeq(QuoteObjs, 1, n)]

\* The analysis results handed to the writer: features[] and newFeatureSuggestions[].
Analyses ==
  { [features |-> <<E("Export", 1)>>, newFeatureSuggestions |-> <<E("Slack", 1)>>],
    [features |-> <<>>,               newFeatureSuggestions |-> <<E("slack", 2)>>],
    [features |-> <<>>,               newFeatureSuggestions |-> <<E("Slack", 1), E("slack", 1)>>],
    [features |-> <<>>,               newFeatureSuggestions |-> <<E("Slack", 1), E("Export", 0)>>],
    [features |-> <<E("Slack", 2)>>,  newFeatureSuggestions |-> <<>>] }

\* The `features` argument handed to saveFeatures: an array of names, or null.
Array(names) == [isNull |-> FALSE, names |-> names]
NullArray == [isNull |-> TRUE, names |-> <<>>]
NameLists == { NullArray, Array(<<>>), Array(<<"Slack">>), Array(<<"Export", "Export">>),
               Array(<<"slack", "Export">>) }

\* ------------------------------------------------------------------- state
VARIABLES
  db,        \* the committed tables
  seq,       \* the SERIAL sequences (not transactional: never rolled back)
  now,       \* NOW() of the latest transaction
  faults,    \* database failures injected so far
  proposed,  \* history: <<transcript id, feature id>> per suggestion processed
  last,      \* the latest call: operation, arguments, outcome
  pre,       \* the committed tables as they were before the latest call
  client,    \* the pool: connections checked out, and what the latest call did with its own
  mig,       \* history: the migrations that have succeeded
  conn,      \* the open transaction of each connection, when calls run concurrently
  reader     \* the reading connection: its position in getTranscriptById, what it read

vars == <<db, seq, now, faults, proposed, last, pre, client, mig, conn, reader>>

\* The columns migrateFeatureSuggestions adds to features, and the tables of
\* the deprecated design.
AddedColumns == {"status", "transcript_id", "pain_points_count"}
OldTables == {"transcript_feature_suggestions", "feature_suggestion_quotes"}

\* initDatabase on a migrated deployment: CREATE TABLE IF NOT EXISTS leaves
\* features with its added columns and creates the deprecated tables, empty.
EmptyDb ==
  [ transcripts |-> {}, transcript_feature_summaries |-> {}, pain_points |-> {},
    feature_mappings |-> {}, features |-> {},
    transcript_feature_suggestions |-> {}, feature_suggestion_quotes |-> {},
    schema |-> [columns |-> AddedColumns, tables |-> OldTables] ]

initDatabase ==
  /\ db = EmptyDb
  /\ seq = [ transcripts |-> 0, transcript_feature_summaries |-> 0,
             pain_points |-> 0, feature_mappings |-> 0, features |-> 0,
             transcript_feature_suggestions |-> 0, feature_suggestion_quotes |-> 0 ]
  /\ now = 0
  /\ faults = 0
  /\ proposed = {}
  /\ last = [op |-> "init", args |-> <<>>, ok |-> TRUE, ret |-> NULL, failAt |-> 0]
  /\ pre = EmptyDb
  /\ client = [checkedOut |-> 0, log |-> <<>>]
  /\ mig = [trail |-> <<>>, first |-> {}]
  /\ conn = <<>>
  /\ reader = <<>>

Init == initDatabase

\* ------------------------------------------------- statements of a transaction
\* A transaction context: the tables as the connection sees them, the
\* sequences, and the local variables of the running function.
Ctx(d, s) ==
  [ db |-> d, seq |-> s, transcriptId |-> NULL, painPointId |-> NULL,
    similar |-> NULL, painPointsCount |-> NULL, featureId |-> NULL, proposed |-> {} ]

NextVal(c, table) == c.seq[table] + 1

\* INSERT INTO transcripts (...) RETURNING id
InsertTranscript(c, userId, t) ==
  LET id == NextVal(c, "transcripts") IN
  [c EXCEPT !.seq.transcripts = id,
            !.db.transcripts = @ \cup {[id |-> id, user_id |-> userId, created_at |-> t]},
            !.transcriptId = id]

\* INSERT INTO transcript_feature_summaries (...)
InsertSummary(c, featureName) ==
  LET id == NextVal(c, "transcript_feature_summaries") IN
  [c EXCEPT !.seq.transcript_feature_summaries = id,
            !.db.transcript_feature_summaries = @ \cup
               {[id |-> id, transcript_id |-> c.transcriptId, feature_name |-> featureName]}]

\* INSERT INTO pain_points (...) RETURNING id
InsertPainPoint(c, quoteObj) ==
  LET id == NextVal(c, "pain_points") IN
  [c EXCEPT !.seq.pain_points = id,
            !.db.pain_points = @ \cup
               {[id |-> id, transcript_id |-> c.transcriptId,
                 pain_point |-> quoteObj.painPoint, quote |-> quoteObj.quote]},
            !.painPointId = id]

\* INSERT INTO feature_mappings (pain_point_id, feature_name)
InsertMapping(c, featureName) ==
  LET id == NextVal(c, "feature_mappings") IN
  [c EXCEPT !.seq.feature_mappings = id,
            !.db.feature_mappings = @ \cup
               {[id |-> id, pain_point_id |-> c.painPointId, feature_name |-> featureName]}]

\* SELECT id, pain_points_count FROM features WHERE user_id = $1
\*   AND LOWER(feature_name) = LOWER($2) AND status = 'pending'
\*   ORDER BY created_at DESC LIMIT 1
\* Rows with equal created_at come back in either order: pref picks among them.
SimilarRowsExactCase(features, userId, featureName) ==
  { f \in features : /\ f.user_id = userId
                     /\ f.feature_name = featureName
                     /\ f.status = "pending" }

\* The lookup without its status = 'pending' condition.
SimilarRowsAnyStatus(features, userId, featureName) ==
  { f \in features : /\ f.user_id = userId
                     /\ LOWER(f.feature_name) = LOWER(featureName) }

SimilarRows(features, userId, featureName) ==
  { f \in features : /\ f.user_id = userId
                     /\ LOWER(f.feature_name) = LOWER(featureName)
                     /\ f.status = "pending" }

MostRecent(rows) == { f \in rows : \A g \in rows : g.created_at <= f.created_at }

SelectSimilar(c, userId, featureName, pref) ==
  LET top == MostRecent(SimilarRows(c.db.features, userId, featureName))
      ids == { f.id : f \in top }
      id  == IF ids = {} THEN NULL ELSE IF pref \in ids THEN pref ELSE Min(ids)
  IN [c EXCEPT !.similar = id,
               !.painPointsCount =
                  IF id = NULL THEN 1
                  ELSE (CHOOSE f \in top : f.id = id).pain_points_count + 1]

\* UPDATE features SET pain_points_count = $1, updated_at = NOW() WHERE id = $2
\* $1 is the count the lookup read, plus one.
UpdateCount(c) ==
  [c EXCEPT !.db.features =
              { IF f.id = c.similar
                THEN [f EXCEPT !.pain_points_count = c.painPointsCount] ELSE f : f \in @ },
            !.featureId = c.similar,
            !.proposed = @ \cup {<<c.transcriptId, c.similar>>}]

\* The insert without the transcript's id.
InsertPendingFeatureUnlinked(c, userId, suggestion, t) ==
  LET id == NextVal(c, "features") IN
  [c EXCEPT !.seq.features = id,
            !.db.features = @ \cup
               {[id |-> id, user_id |-> userId, feature_name |-> suggestion.featureName,
                 description |-> suggestion.aiSummary, status |-> "pending",
                 is_suggestion |-> TRUE, transcript_id |-> NULL,
                 pain_points_count |-> 1, created_at |-> t]},
            !.featureId = id,
            !.proposed = @ \cup {<<c.transcriptId, id>>}]

\* INSERT INTO features (...) VALUES ($1, $2, $3, 'pending', true, transcriptId, 1)
InsertPendingFeature(c, userId, suggestion, t) ==
  LET id == NextVal(c, "features") IN
  [c EXCEPT !.seq.features = id,
            !.db.features = @ \cup
               {[id |-> id, user_id |-> userId, feature_name |-> suggestion.featureName,
                 description |-> suggestion.aiSummary, status |-> "pending",
                 is_suggestion |-> TRUE, transcript_id |-> c.transcriptId,
                 pain_points_count |-> 1, created_at |-> t]},
            !.featureId = id,
            !.proposed = @ \cup {<<c.transcriptId, id>>}]

\* if (similarSuggestions.rows.length > 0) update else insert
UpsertSuggestion(c, userId, suggestion, t) ==
  IF c.similar # NULL THEN UpdateCount(c)
  ELSE InsertPendingFeature(c, userId, suggestion, t)

\* ------------------------------------------------------ saveTranscript
Stmt(op, name, quoteObj, suggestion, pref) ==
  [op |-> op, name |-> name, quoteObj |-> quoteObj, suggestion |-> suggestion, pref |-> pref]

NoQuote == [quote |-> "", painPoint |-> ""]
NoEntry == [featureName |-> "", aiSummary |-> "", quotes |-> <<>>]

RECURSIVE Flat(_)
Flat(ss) == IF ss = <<>> THEN <<>> ELSE Head(ss) \o Flat(Tail(ss))

\* The quote loop without its mapping insert.
QuoteStmtsNoMapping(quotes, featureName) ==
  Flat([i \in 1..Len(quotes) |->
         << Stmt("insertPainPoint", featureName, quotes[i], NoEntry, NULL) >>])

\* for (const quoteObj of x.quotes) { INSERT pain_points; INSERT feature_mappings }
QuoteStmts(quotes, featureName) ==
  Flat([i \in 1..Len(quotes) |->
         << Stmt("insertPainPoint", featureName, quotes[i], NoEntry, NULL),
            Stmt("insertMapping", featureName, quotes[i], NoEntry, NULL) >>])

\* for (const feature of features) { INSERT summary; quotes }
FeatureStmts(features) ==
  Flat([i \in 1..Len(features) |->
         << Stmt("insertSummary", features[i].featureName, NoQuote, features[i], NULL) >>
         \o QuoteStmts(features[i].quotes, features[i].featureName)])

\* for (const suggestion of newFeatureSuggestions) { SELECT; UPDATE or INSERT; quotes }
SuggestionStmts(newFeatureSuggestions, prefs) ==
  Flat([i \in 1..Len(newFeatureSuggestions) |->
         << Stmt("selectSimilar", newFeatureSuggestions[i].featureName, NoQuote,
                 newFeatureSuggestions[i], prefs[i]),
            Stmt("upsertSuggestion", newFeatureSuggestions[i].featureName, NoQuote,
                 newFeatureSuggestions[i], NULL) >>
         \o QuoteStmts(newFeatureSuggestions[i].quotes, newFeatureSuggestions[i].featureName)])

\* The statements saveTranscript issues between BEGIN and the return, in order.
SaveTranscriptStmts(features, newFeatureSuggestions, prefs) ==
  << Stmt("insertTranscript", "", NoQuote, NoEntry, NULL) >>
  \o FeatureStmts(features)
  \o SuggestionStmts(newFeatureSuggestions, prefs)
  \o << Stmt("commit", "", NoQuote, NoEntry, NULL) >>

Exec(c, st, userId, t) ==
  CASE st.op = "insertTranscript" -> InsertTranscript(c, userId, t)
    [] st.op = "insertSummary"    -> InsertSummary(c, st.name)
    [] st.op = "insertPainPoint"  -> InsertPainPoint(c, st.quoteObj)
    [] st.op = "insertMapping"    -> InsertMapping(c, st.name)
    [] st.op = "selectSimilar"    -> SelectSimilar(c, userId, st.name, st.pref)
    [] st.op = "upsertSuggestion" -> UpsertSuggestion(c, userId, st.suggestion, t)
    [] st.op = "commit"           -> c

RECURSIVE Run(_, _, _, _, _)
Run(c, stmts, n, userId, t) ==
  IF n = 0 THEN c ELSE Exec(Run(c, stmts, n - 1, userId, t), stmts[n], userId, t)

\* The catch block without its ROLLBACK: what the connection wrote stays.
RollbackLost(snapshot, c) == c.db

\* catch (error) { await client.query('ROLLBACK'); throw error; }
Rollback(snapshot, c) == snapshot

\* Ids of pending rows that tie with another row of the dedup lookup.
TiedIds(userId) ==
  { f.id : f \in { g \in db.features :
        /\ g.user_id = userId /\ g.status = "pending"
        /\ \E h \in db.features : /\ h.id # g.id /\ h.user_id = userId
                                  /\ h.status = "pending"
                                  /\ LOWER(h.feature_name) = LOWER(g.feature_name)
                                  /\ h.created_at = g.created_at } }

Call(op, args, ok, ret, failAt) ==
  [op |-> op, args |-> args, ok |-> ok, ret |-> ret, failAt |-> failAt]

\* A failure of the database at a statement: failAt = 0 is a call the
\* database answers throughout, failAt = k a call whose k-th statement raises.
Faulted(failAt) ==
  IF failAt = 0 THEN faults' = faults
  ELSE /\ faults < MaxFaults
       /\ faults' = faults + 1

\* ------------------------------------------------------ the connection
Count(log, e) == Cardinality({ i \in DOMAIN log : log[i] = e })

Queries(k) == [i \in 1..k |-> "query"]

\* A function that releases at the end of its try block, not in finally.
ReleaseInTry(done, threw) ==
  <<"connect", "BEGIN">> \o Queries(done)
    \o (IF threw THEN <<"throw", "ROLLBACK">> ELSE <<"release">>)

\* const client = await pool.connect();
\* try { BEGIN; ...; COMMIT } catch (error) { ROLLBACK; throw error }
\* finally { client.release() }
\* done: the statements after BEGIN that completed; threw: an exception left
\* the try block.
TryCatchFinally(done, threw) ==
  <<"connect", "BEGIN">> \o Queries(done)
    \o (IF threw THEN <<"throw", "ROLLBACK">> ELSE <<>>)
    \o <<"release">>

\* The call's use of the pool.
Session(log) ==
  /\ client' = [checkedOut |-> client.checkedOut + Count(log, "connect") - Count(log, "release"),
                log |-> log]
  /\ UNCHANGED <<conn, reader>>

\* pool.query(...): the pool checks a connection out for the one statement.
PoolQuery == Session(<<"connect", "query", "release">>)

\* Every call takes one tick of the clock and leaves the tables it found in pre.
Tick ==
  /\ now < MaxClock
  /\ now' = now + 1
  /\ pre' = db

saveTranscript(userId, features, newFeatureSuggestions, prefs, failAt) ==
  LET stmts == SaveTranscriptStmts(features, newFeatureSuggestions, prefs)
      t     == now + 1
      done  == IF failAt = 0 THEN Len(stmts) ELSE failAt - 1
      c     == Run(Ctx(db, seq), stmts, done, userId, t)
  IN /\ Tick
     /\ failAt <= Len(stmts)
     /\ Faulted(failAt)
     /\ seq' = c.seq
     /\ Session(TryCatchFinally(done, failAt # 0))
     /\ UNCHANGED mig
     /\ IF failAt = 0
        THEN /\ db' = c.db
             /\ proposed' = proposed \cup c.proposed
             /\ last' = Call("saveTranscript", <<userId, features, newFeatureSuggestions>>,
                             TRUE, c.transcriptId, failAt)
        ELSE /\ db' = Rollback(db, c)
             /\ proposed' = proposed
             /\ last' = Call("saveTranscript", <<userId, features, newFeatureSuggestions>>,
                             FALSE, "error", failAt)

\* The longest statement list an analysis of Analyses produces.
StmtIndex == 1..Max({ Len(SaveTranscriptStmts(a.features, a.newFeatureSuggestions,
                                             [i \in 1..Len(a.newFeatureSuggestions) |-> NULL]))
                      : a \in Analyses })

SaveTranscriptCall(failPoints) ==
  \E userId \in Users, a \in Analyses :
    \E prefs \in [1..Len(a.newFeatureSuggestions) -> {NULL} \cup TiedIds(userId)],
       failAt \in failPoints :
      saveTranscript(userId, a.features, a.newFeatureSuggestions, prefs, failAt)

\* ------------------------------------------------------ POST /api/transcripts
\* A field of req.body: absent (undefined) or present with a value.
Absent(empty) == [defined |-> FALSE, value |-> empty]
Present(value) == [defined |-> TRUE, value |-> value]

\* The request bodies: transcriptText absent, empty or a text; features
\* absent or an array; newFeatureSuggestions and userId absent or given.
Bodies ==
  { [transcriptText |-> x, features |-> Present(a.features),
     newFeatureSuggestions |-> Present(a.newFeatureSuggestions), userId |-> u]
    : x \in {Absent(""), Present(""), Present("call notes")}, a \in Analyses,
      u \in {Absent(""), Present("other")} }
  \cup
  { [transcriptText |-> x, features |-> Absent(<<>>),
     newFeatureSuggestions |-> n, userId |-> Absent("")]
    : x \in {Absent(""), Present("call notes")},
      n \in {Absent(<<>>), Present(<<E("Slack", 1)>>)} }

\* The check that lets an empty text through: transcriptText === undefined.
RejectsUndefinedOnly(body) == ~body.transcriptText.defined \/ ~body.features.defined

\* if (!transcriptText || !features): undefined and '' are falsy, an array,
\* even an empty one, is truthy.
Rejects(body) ==
  \/ ~body.transcriptText.defined
  \/ body.transcriptText.value = ""
  \/ ~body.features.defined

\* x || fallback
OrElse(x, fallback) == IF x.defined THEN x.value ELSE fallback

\* The handler: 400 before any database call, or saveTranscript.
postTranscripts(body, prefs, failAt) ==
  IF Rejects(body)
  THEN /\ Tick
       /\ db' = db
       /\ last' = Call("POST /api/transcripts", <<body>>, FALSE, 400, 0)
       /\ Session(<<>>)
       /\ UNCHANGED <<seq, faults, proposed, mig>>
  ELSE saveTranscript(OrElse(body.userId, "default"), body.features.value,
                      OrElse(body.newFeatureSuggestions, <<>>), prefs, failAt)

PostTranscriptsCall ==
  \E body \in Bodies :
    \E prefs \in [1..Len(body.newFeatureSuggestions.value) ->
                    {NULL} \cup TiedIds(OrElse(body.userId, "default"))],
       failAt \in {0} \cup StmtIndex :
      postTranscripts(body, prefs, failAt)

\* ------------------------------------------------------ deleteTranscript
\* DELETE FROM transcripts WHERE id = $1, with the schema's ON DELETE rules:
\* summaries, pain points and the deprecated suggestions cascade, mappings
\* cascade with their pain point, features.transcript_id is SET NULL.
\* The delete with features.transcript_id declared ON DELETE CASCADE.
DeleteTranscriptRowWithFeatures(d, transcriptId) ==
  LET gone == { p.id : p \in { q \in d.pain_points : q.transcript_id = transcriptId } } IN
  [d EXCEPT
     !.transcripts = { t \in @ : t.id # transcriptId },
     !.transcript_feature_summaries = { x \in @ : x.transcript_id # transcriptId },
     !.transcript_feature_suggestions = { x \in @ : x.transcript_id # transcriptId },
     !.feature_suggestion_quotes =
        { q \in @ : \A x \in d.transcript_feature_suggestions :
                      x.id = q.suggestion_id => x.transcript_id # transcriptId },
     !.pain_points = { q \in @ : q.transcript_id # transcriptId },
     !.feature_mappings = { m \in @ : m.pain_point_id \notin gone },
     !.features = { f \in @ : f.transcript_id # transcriptId }]

DeleteTranscriptRow(d, transcriptId) ==
  LET gone == { p.id : p \in { q \in d.pain_points : q.transcript_id = transcriptId } } IN
  [d EXCEPT
     !.transcripts = { t \in @ : t.id # transcriptId },
     !.transcript_feature_summaries = { x \in @ : x.transcript_id # transcriptId },
     !.transcript_feature_suggestions = { x \in @ : x.transcript_id # transcriptId },
     !.feature_suggestion_quotes =
        { q \in @ : \A x \in d.transcript_feature_suggestions :
                      x.id = q.suggestion_id => x.transcript_id # transcriptId },
     !.pain_points = { q \in @ : q.transcript_id # transcriptId },
     !.feature_mappings = { m \in @ : m.pain_point_id \notin gone },
     !.features = { IF f.transcript_id = transcriptId
                    THEN [f EXCEPT !.transcript_id = NULL] ELSE f : f \in @ }]

deleteTranscript(transcriptId) ==
  /\ Tick
  /\ db' = DeleteTranscriptRow(db, transcriptId)
  /\ last' = Call("deleteTranscript", <<transcriptId>>, TRUE, NULL, 0)
  /\ PoolQuery
  /\ UNCHANGED <<seq, faults, proposed, mig>>

\* ------------------------------------------------------ approveSuggestion
\* UPDATE features SET status = 'active' WHERE id = $2 AND user_id = $3
\*   AND status = 'pending' RETURNING *
\* The approval without its status = 'pending' condition.
ApproveRowsAnyStatus(features, suggestionId, userId) ==
  { f \in features : f.id = suggestionId /\ f.user_id = userId }

\* The approval without its user_id condition.
ApproveRowsAnyUser(features, suggestionId, userId) ==
  { f \in features : f.id = suggestionId /\ f.status = "pending" }

ApproveRows(features, suggestionId, userId) ==
  { f \in features : f.id = suggestionId /\ f.user_id = userId /\ f.status = "pending" }

SetStatus(features, rows, status) ==
  (features \ rows) \cup { [f EXCEPT !.status = status] : f \in rows }

\* if (result.rows.length === 0) throw new Error('Suggestion not found or already approved')
ApproveError(rows) ==
  IF rows = {} THEN "Suggestion not found or already approved" ELSE "none"

\* The response of POST /suggestions/:suggestionId/approve to the error the
\* function threw: res.status(500).json({ success: false, error, message }).
ApproveResponse(error) ==
  IF error = "none"
  THEN [status |-> 200, error |-> "none", message |-> "Feature suggestion approved and added to features list"]
  ELSE [status |-> 500, error |-> "Failed to approve suggestion", message |-> error]

approveSuggestion(suggestionId, userId) ==
  LET rows == ApproveRows(db.features, suggestionId, userId)
      work == [db |-> [db EXCEPT !.features = SetStatus(@, rows, "active")]]
  IN /\ Tick
     /\ IF rows = {}
        THEN /\ db' = Rollback(db, work)
             /\ last' = Call("approveSuggestion", <<suggestionId, userId>>, FALSE,
                             ApproveError(rows), 0)
        ELSE /\ db' = work.db
             /\ last' = Call("approveSuggestion", <<suggestionId, userId>>, TRUE, "success", 0)
     /\ Session(TryCatchFinally(IF rows = {} THEN 1 ELSE 2, rows = {}))
     /\ UNCHANGED <<seq, faults, proposed, mig>>

\* ------------------------------------------------------ ignoreSuggestion
\* The update restricted to suggestions that are still pending.
IgnoreRowsPendingOnly(suggestions, suggestionId) ==
  { x \in suggestions : x.id = suggestionId /\ x.status = "pending" }

\* UPDATE transcript_feature_suggestions SET status = 'ignored' WHERE id = $2
IgnoreRows(suggestions, suggestionId) == { x \in suggestions : x.id = suggestionId }

\* return result.rowCount > 0; the UPDATE raises when the migration has
\* dropped the table.
ignoreSuggestion(suggestionId) ==
  LET rows == IgnoreRows(db.transcript_feature_suggestions, suggestionId) IN
  /\ Tick
  /\ db' = [db EXCEPT !.transcript_feature_suggestions = SetStatus(@, rows, "ignored")]
  /\ last' = IF "transcript_feature_suggestions" \in db.schema.tables
             THEN Call("ignoreSuggestion", <<suggestionId>>, rows # {}, "rowCount", 0)
             ELSE Call("ignoreSuggestion", <<suggestionId>>, FALSE, "error", 0)
  /\ PoolQuery
  /\ UNCHANGED <<seq, faults, proposed, mig>>

\* ------------------------------------------------------ archiveFeature
\* Archive(id, user): set status to 'archived' on the row of the owning user;
\* re-archiving an archived row succeeds and changes nothing.
archiveFeature(featureId, userId) ==
  LET rows == { f \in db.features : f.id = featureId /\ f.user_id = userId } IN
  /\ Tick
  /\ db' = [db EXCEPT !.features = SetStatus(@, rows, "archived")]
  /\ last' = IF rows = {}
             THEN Call("archiveFeature", <<featureId, userId>>, FALSE, "Feature not found", 0)
             ELSE Call("archiveFeature", <<featureId, userId>>, TRUE, "archived", 0)
  /\ PoolQuery
  /\ UNCHANGED <<seq, faults, proposed, mig>>

\* ------------------------------------------------------ updateFeature
\* The tables after the first k statements of updateFeature:
\*   1 SELECT feature_name   2 UPDATE features   3 UPDATE feature_mappings
\* (statement 3 only when the name changed), then COMMIT.
UpdateFeatureRow(d, featureId, featureName, description, userId) ==
  [d EXCEPT !.features =
     { IF f.id = featureId /\ f.user_id = userId
       THEN [f EXCEPT !.feature_name = featureName, !.description = description]
       ELSE f : f \in @ }]

\* The update without the rewrite of feature_mappings.
RenameMappingsSkipped(d, oldFeatureName, featureName) == d

RenameMappings(d, oldFeatureName, featureName) ==
  [d EXCEPT !.feature_mappings =
     { IF m.feature_name = oldFeatureName
       THEN [m EXCEPT !.feature_name = featureName] ELSE m : m \in @ }]

UpdateFeatureWork(d, k, oldFeatureName, featureId, featureName, description, userId) ==
  LET d2 == UpdateFeatureRow(d, featureId, featureName, description, userId)
      d3 == IF oldFeatureName # featureName
            THEN RenameMappings(d2, oldFeatureName, featureName) ELSE d2
  IN IF k <= 1 THEN d ELSE IF k = 2 THEN d2 ELSE d3

UpdateFeatureLen(oldFeatureName, featureName) ==
  IF oldFeatureName # featureName THEN 4 ELSE 3

updateFeature(featureId, featureName, description, userId, failAt) ==
  LET found == { f \in db.features : f.id = featureId /\ f.user_id = userId }
      oldFeatureName == IF found = {} THEN "" ELSE (CHOOSE f \in found : TRUE).feature_name
      n    == IF found = {} THEN 1 ELSE UpdateFeatureLen(oldFeatureName, featureName)
      done == IF failAt = 0 THEN n ELSE failAt - 1
      work == [db |-> UpdateFeatureWork(db, done, oldFeatureName, featureId,
                                        featureName, description, userId)]
      args == <<featureId, featureName, description, userId>>
  IN /\ Tick
     /\ failAt <= n
     /\ Faulted(failAt)
     /\ IF failAt # 0
        THEN /\ db' = Rollback(db, work)
             /\ last' = Call("updateFeature", args, FALSE, "error", failAt)
        ELSE IF found = {}
        THEN /\ db' = Rollback(db, work)
             /\ last' = Call("updateFeature", args, FALSE, "Feature not found", 0)
        ELSE /\ db' = work.db
             /\ last' = Call("updateFeature", args, TRUE, "updated", 0)
     /\ Session(TryCatchFinally(done, failAt # 0 \/ found = {}))
     /\ UNCHANGED <<seq, proposed, mig>>

\* ------------------------------------------------------ saveFeatures
\* The delete of every row of the user, suggestions included.
DeleteAllOfUser(d, userId) ==
  [d EXCEPT !.features = { f \in @ : f.user_id # userId }]

\* DELETE FROM features WHERE user_id = $1 AND (is_suggestion = FALSE OR is_suggestion IS NULL)
DeleteUserDefined(d, userId) ==
  [d EXCEPT !.features = { f \in @ : ~(f.user_id = userId /\ f.is_suggestion = FALSE) }]

\* INSERT INTO features (user_id, feature_name, is_suggestion) VALUES ($1, $k, FALSE), ...
\* The other columns take their defaults: status 'active', the rest NULL.
InsertUserDefined(d, s, userId, names, t) ==
  [d EXCEPT !.features = @ \cup
     { [id |-> s.features + i, user_id |-> userId, feature_name |-> names[i],
        description |-> "null", status |-> "active", is_suggestion |-> FALSE,
        transcript_id |-> NULL, pain_points_count |-> NULL, created_at |-> t]
       : i \in 1..Len(names) }]

\* The statements after BEGIN: the DELETE, the bulk INSERT when the list is
\* not empty, COMMIT.
SaveFeaturesLen(features) ==
  IF ~features.isNull /\ Len(features.names) > 0 THEN 3 ELSE 2

\* The tables after the first k statements.
SaveFeaturesWork(d, s, k, userId, features, t) ==
  LET d1 == DeleteUserDefined(d, userId)
      d2 == IF ~features.isNull /\ Len(features.names) > 0
            THEN InsertUserDefined(d1, s, userId, features.names, t) ELSE d1
  IN IF k = 0 THEN d ELSE IF k = 1 THEN d1 ELSE d2

\* features === null reaches `return features.length` after COMMIT: the
\* TypeError is thrown with the delete already committed, and the ROLLBACK
\* of the catch block finds no open transaction.
saveFeatures(userId, features, failAt) ==
  LET t    == now + 1
      n    == SaveFeaturesLen(features)
      done == IF failAt = 0 THEN n ELSE failAt - 1
      work == [db |-> SaveFeaturesWork(db, seq, done, userId, features, t)]
      args == <<userId, features>>
  IN /\ Tick
     /\ failAt <= n
     /\ Faulted(failAt)
     /\ seq' = IF n = 3 /\ done >= 2
               THEN [seq EXCEPT !.features = @ + Len(features.names)] ELSE seq
     /\ IF failAt # 0
        THEN /\ db' = Rollback(db, work)
             /\ last' = Call("saveFeatures", args, FALSE, "error", failAt)
        ELSE /\ db' = work.db
             /\ last' = IF features.isNull
                        THEN Call("saveFeatures", args, FALSE, "TypeError", 0)
                        ELSE Call("saveFeatures", args, TRUE, "saved", 0)
     /\ Session(TryCatchFinally(done, failAt # 0 \/ features.isNull))
     /\ UNCHANGED <<proposed, mig>>

\* ------------------------------------------------------ deleteFeatures
\* DELETE FROM features WHERE user_id = $1
deleteFeatures(userId) ==
  /\ Tick
  /\ db' = [db EXCEPT !.features = { f \in @ : f.user_id # userId }]
  /\ last' = Call("deleteFeatures", <<userId>>, TRUE, "rowCount", 0)
  /\ PoolQuery
  /\ UNCHANGED <<seq, faults, proposed, mig>>

\* ------------------------------------------------------ deleteFeatureMapping
\* DELETE FROM feature_mappings WHERE id = $1
deleteFeatureMapping(mappingId) ==
  /\ Tick
  /\ db' = [db EXCEPT !.feature_mappings = { m \in @ : m.id # mappingId }]
  /\ last' = Call("deleteFeatureMapping", <<mappingId>>,
                  \E m \in db.feature_mappings : m.id = mappingId, "rowCount", 0)
  /\ PoolQuery
  /\ UNCHANGED <<seq, faults, proposed, mig>>

\* ------------------------------------------------------ the reads
\* ORDER BY id ASC
RECURSIVE OrderById(_)
OrderById(rows) ==
  IF rows = {} THEN <<>>
  ELSE LET r == CHOOSE x \in rows : \A y \in rows : x.id <= y.id
       IN <<r>> \o OrderById(rows \ {r})

\* SELECT id, feature_name, description, is_suggestion, created_at, updated_at
\* FROM features WHERE user_id = $1 ORDER BY id ASC
getFeatures(userId) ==
  LET rows == OrderById({ f \in db.features : f.user_id = userId }) IN
  [i \in 1..Len(rows) |->
     [id |-> rows[i].id, feature_name |-> rows[i].feature_name,
      description |-> rows[i].description, is_suggestion |-> rows[i].is_suggestion,
      created_at |-> rows[i].created_at]]

\* SELECT feature_name FROM features WHERE user_id = $1 ORDER BY id ASC
getFeatureNames(userId) ==
  LET rows == OrderById({ f \in db.features : f.user_id = userId }) IN
  [i \in 1..Len(rows) |-> rows[i].feature_name]

\* features f LEFT JOIN feature_mappings fm ON f.feature_name = fm.feature_name
\*            LEFT JOIN pain_points pp ON fm.pain_point_id = pp.id
\* The rows of one group (one f) that carry a pain point.
JoinRows(d, f) ==
  { [mapping_id |-> fm.id, pain_point_id |-> pp.id, transcript_id |-> pp.transcript_id]
    : <<fm, pp>> \in { x \in d.feature_mappings \X d.pain_points :
                         /\ x[1].feature_name = f.feature_name
                         /\ x[1].pain_point_id = x[2].id } }

\* COUNT(pp.transcript_id): the count without DISTINCT.
CountRows(rows) == Cardinality(rows)

\* COUNT(DISTINCT pp.transcript_id)
CountDistinct(rows) == Cardinality({ r.transcript_id : r \in rows })

\* The result rows of the query on the tables d, apart from their order:
\* FROM features f LEFT JOIN feature_mappings fm ON f.feature_name = fm.feature_name
\* LEFT JOIN pain_points pp ON fm.pain_point_id = pp.id WHERE f.user_id = $1
FeaturesWithCounts(d, userId) ==
  { [id |-> f.id, feature_name |-> f.feature_name, description |-> f.description,
     is_suggestion |-> f.is_suggestion, created_at |-> f.created_at,
     painPointCount |-> CountDistinct(JoinRows(d, f))]
    : f \in { g \in d.features : g.user_id = userId } }

getAllFeaturesWithCounts(userId) == FeaturesWithCounts(db, userId)

\* ------------------------------------------------------ getFeatureDetails
\* SELECT pp.id as pain_point_id, ..., t.id as transcript_id, fm.id as mapping_id
\* FROM feature_mappings fm JOIN pain_points pp ON fm.pain_point_id = pp.id
\*   JOIN transcripts t ON pp.transcript_id = t.id
\* WHERE fm.feature_name = $1 AND t.user_id = $2
DetailRows(d, featureName, userId) ==
  { [pain_point_id |-> x[2].id, painPoint |-> x[2].pain_point, quote |-> x[2].quote,
     transcript_id |-> x[3].id, created_at |-> x[3].created_at, mapping_id |-> x[1].id]
    : x \in { y \in d.feature_mappings \X d.pain_points \X d.transcripts :
                /\ y[1].feature_name = featureName
                /\ y[1].pain_point_id = y[2].id
                /\ y[2].transcript_id = y[3].id
                /\ y[3].user_id = userId } }

\* ORDER BY t.created_at DESC, pp.id ASC (rows equal in both by mapping id)
Before(a, b) ==
  \/ a.created_at > b.created_at
  \/ a.created_at = b.created_at /\ a.pain_point_id < b.pain_point_id
  \/ a.created_at = b.created_at /\ a.pain_point_id = b.pain_point_id
       /\ a.mapping_id <= b.mapping_id

RECURSIVE OrderRows(_)
OrderRows(rows) ==
  IF rows = {} THEN <<>>
  ELSE LET r == CHOOSE x \in rows : \A y \in rows : Before(x, y)
       IN <<r>> \o OrderRows(rows \ {r})

\* Object.values(transcriptMap): transcriptMap is a plain object keyed by
\* row.transcript_id, an integer, and a JavaScript object yields its
\* integer keys in ascending numeric order, not in insertion order.
RECURSIVE ObjectValues(_, _)
ObjectValues(keys, transcriptMap) ==
  IF keys = {} THEN <<>>
  ELSE <<transcriptMap[Min(keys)]>> \o ObjectValues(keys \ {Min(keys)}, transcriptMap)

\* painPointsResult.rows.forEach(row => transcriptMap[row.transcript_id].painPoints.push(...))
GroupByTranscript(rows) ==
  LET keys == { rows[i].transcript_id : i \in DOMAIN rows }
      transcriptMap ==
        [k \in keys |->
           [transcriptId |-> k,
            painPoints |-> SelectSeq(rows, LAMBDA r : r.transcript_id = k)]]
  IN ObjectValues(keys, transcriptMap)

\* getFeatureDetails(featureName, userId): null when the user has no feature
\* of that name, else the transcripts with their pain points.
getFeatureDetails(featureName, userId) ==
  IF \A f \in db.features : ~(f.feature_name = featureName /\ f.user_id = userId)
  THEN [isNull |-> TRUE, transcripts |-> <<>>]
  ELSE [isNull |-> FALSE,
        transcripts |-> GroupByTranscript(OrderRows(DetailRows(db, featureName, userId)))]

\* ------------------------------------------------------ the calls
\* Ids a caller may pass: every id issued so far and one never issued.
IdsOf(table) == 1..(seq[table] + 1)

DeleteTranscriptCall == \E transcriptId \in IdsOf("transcripts") : deleteTranscript(transcriptId)

ApproveSuggestionCall ==
  \E suggestionId \in IdsOf("features"), userId \in Users :
    approveSuggestion(suggestionId, userId)

ArchiveFeatureCall ==
  \E featureId \in IdsOf("features"), userId \in Users : archiveFeature(featureId, userId)

IgnoreSuggestionCall == \E suggestionId \in IdsOf("features") : ignoreSuggestion(suggestionId)

UpdateFeatureCall(failPoints) ==
  \E featureId \in IdsOf("features"), featureName \in Names, userId \in Users,
     failAt \in failPoints :
    updateFeature(featureId, featureName, "edited", userId, failAt)

SaveFeaturesCall(failPoints) ==
  \E userId \in Users, features \in NameLists, failAt \in failPoints :
    saveFeatures(userId, features, failAt)

DeleteFeaturesCall == \E userId \in Users : deleteFeatures(userId)

DeleteFeatureMappingCall ==
  \E mappingId \in IdsOf("feature_mappings") : deleteFeatureMapping(mappingId)

Next ==
  \/ SaveTranscriptCall({0})
  \/ DeleteTranscriptCall
  \/ ApproveSuggestionCall
  \/ IgnoreSuggestionCall
  \/ ArchiveFeatureCall
  \/ UpdateFeatureCall({0})
  \/ SaveFeaturesCall({0})
  \/ DeleteFeaturesCall
  \/ DeleteFeatureMappingCall

Spec == Init /\ [][Next]_vars

\* The writer, the update and the approval against a database that may fail
\* at any statement of a transaction.
NextFault ==
  \/ SaveTranscriptCall({0} \cup StmtIndex)
  \/ UpdateFeatureCall(0..4)
  \/ SaveFeaturesCall(0..3)
  \/ ApproveSuggestionCall

SpecFault == Init /\ [][NextFault]_vars

\* Requests to the transcript routes, against a database that may fail.
NextRoute ==
  \/ PostTranscriptsCall
  \/ DeleteTranscriptCall

SpecRoute == Init /\ [][NextRoute]_vars

\* ========================================================= two-table design
\* The deployment before the migration: initDatabase on a fresh database.
\* features has none of the added columns; a Feature row then carries
\* NoColumn, NULL, NULL in their place.
NoColumn == "none"

LegacyDb == [EmptyDb EXCEPT !.schema.columns = {}]

InitLegacy ==
  /\ db = LegacyDb
  /\ seq = [ transcripts |-> 0, transcript_feature_summaries |-> 0,
             pain_points |-> 0, feature_mappings |-> 0, features |-> 0,
             transcript_feature_suggestions |-> 0, feature_suggestion_quotes |-> 0 ]
  /\ now = 0
  /\ faults = 0
  /\ proposed = {}
  /\ last = [op |-> "init", args |-> <<>>, ok |-> TRUE, ret |-> NULL, failAt |-> 0]
  /\ pre = LegacyDb
  /\ client = [checkedOut |-> 0, log |-> <<>>]
  /\ mig = [trail |-> <<>>, first |-> {}]
  /\ conn = <<>>
  /\ reader = <<>>

\* The newFeatureSuggestions handed to the two-table writer.
LegacySuggestions ==
  { << E("Slack", 1) >>,
    << E("slack", 2) >>,
    << E("Slack", 1),
       [featureName |-> "Export", aiSummary |-> "ai", quotes |-> SubSeq(QuoteObjs, 2, 2)] >> }

\* The position of row x among rows, by id.
Rank(x, rows) == Cardinality({ y \in rows : y.id <= x.id })

\* The context of a migration or two-table transaction: Ctx and whether a
\* statement has raised.
MCtx(d, s) ==
  [ db |-> d, seq |-> s, transcriptId |-> NULL, painPointId |-> NULL,
    similar |-> NULL, featureId |-> NULL, proposed |-> {}, error |-> FALSE ]

\* SELECT tfs.id, tfs.pain_points_count FROM transcript_feature_suggestions tfs
\*   JOIN transcripts t ON tfs.transcript_id = t.id
\*   WHERE t.user_id = $1 AND LOWER(tfs.feature_name) = LOWER($2) AND tfs.status = 'pending'
SimilarSuggestions(d, userId, featureName) ==
  { x \in d.transcript_feature_suggestions :
      /\ x.status = "pending"
      /\ LOWER(x.feature_name) = LOWER(featureName)
      /\ \E t \in d.transcripts : t.id = x.transcript_id /\ t.user_id = userId }

\* INSERT INTO transcript_feature_suggestions (...) RETURNING id, then one
\* INSERT INTO feature_suggestion_quotes per quote of the suggestion.
\* ORDER BY tfs.created_at DESC LIMIT 1: LegacySuggestions names no feature
\* twice in one call, so the most recent row is one row.
InsertSuggestion(c, suggestion, userId, t) ==
  LET top == MostRecent(SimilarSuggestions(c.db, userId, suggestion.featureName))
      painPointsCount == IF top = {} THEN 1
                         ELSE (CHOOSE x \in top : x.id = Min({ y.id : y \in top })).pain_points_count + 1
      suggestionId == NextVal(c, "transcript_feature_suggestions")
      n == Len(suggestion.quotes)
  IN [c EXCEPT
        !.seq.transcript_feature_suggestions = suggestionId,
        !.seq.feature_suggestion_quotes = @ + n,
        !.db.transcript_feature_suggestions = @ \cup
           {[id |-> suggestionId, transcript_id |-> c.transcriptId,
             feature_name |-> suggestion.featureName, ai_summary |-> suggestion.aiSummary,
             status |-> "pending", pain_points_count |-> painPointsCount, created_at |-> t]},
        !.db.feature_suggestion_quotes = @ \cup
           { [id |-> c.seq.feature_suggestion_quotes + i, suggestion_id |-> suggestionId,
              quote |-> suggestion.quotes[i].quote, pain_point |-> suggestion.quotes[i].painPoint]
             : i \in 1..n }]

RECURSIVE InsertSuggestions(_, _, _, _)
InsertSuggestions(c, newFeatureSuggestions, userId, t) ==
  IF newFeatureSuggestions = <<>> THEN c
  ELSE InsertSuggestions(InsertSuggestion(c, Head(newFeatureSuggestions), userId, t),
                         Tail(newFeatureSuggestions), userId, t)

\* saveTranscript of the two-table design: the transcript, the known
\* features with their quotes, then one suggestion row per entry.
saveTranscriptTwoTable(userId, features, newFeatureSuggestions) ==
  LET t     == now + 1
      stmts == << Stmt("insertTranscript", "", NoQuote, NoEntry, NULL) >> \o FeatureStmts(features)
      c1    == Run(MCtx(db, seq), stmts, Len(stmts), userId, t)
      c     == InsertSuggestions(c1, newFeatureSuggestions, userId, t)
  IN /\ Tick
     /\ mig.trail = <<>>
     /\ db.schema.columns = {}
     /\ db' = c.db
     /\ seq' = c.seq
     /\ last' = Call("saveTranscriptTwoTable", <<userId, features, newFeatureSuggestions>>,
                     TRUE, c.transcriptId, 0)
     /\ Session(TryCatchFinally(Len(stmts) + Len(newFeatureSuggestions) + 1, FALSE))
     /\ UNCHANGED <<faults, proposed, mig>>

\* SELECT quote, pain_point FROM feature_suggestion_quotes WHERE suggestion_id = $1
QuotesOf(d, suggestionId) ==
  LET rows == { q \in d.feature_suggestion_quotes : q.suggestion_id = suggestionId } IN
  [i \in 1..Cardinality(rows) |->
     LET q == CHOOSE x \in rows : Rank(x, rows) = i
     IN [quote |-> q.quote, painPoint |-> q.pain_point]]

\* approveSuggestion of the two-table design: mark the suggestion approved,
\* add a Feature row (is_suggestion false) unless the user has one of that
\* name, and copy each quote into pain_points and feature_mappings.
ApproveTwoTableWork(d, s, suggestion, userId, t) ==
  LET d1 == [d EXCEPT !.transcript_feature_suggestions =
                         SetStatus(@, {suggestion}, "approved")]
      existingFeature == { f \in d.features : f.user_id = userId
                                             /\ f.feature_name = suggestion.feature_name }
      d2 == IF existingFeature # {} THEN d1
            ELSE [d1 EXCEPT !.features = @ \cup
                    {[id |-> s.features + 1, user_id |-> userId,
                      feature_name |-> suggestion.feature_name,
                      description |-> suggestion.ai_summary, status |-> NoColumn,
                      is_suggestion |-> FALSE, transcript_id |-> NULL,
                      pain_points_count |-> NULL, created_at |-> t]}]
      s2 == IF existingFeature # {} THEN s ELSE [s EXCEPT !.features = @ + 1]
      stmts == QuoteStmts(QuotesOf(d, suggestion.id), suggestion.feature_name)
  IN Run([MCtx(d2, s2) EXCEPT !.transcriptId = suggestion.transcript_id],
         stmts, Len(stmts), userId, t)

approveSuggestionTwoTable(suggestionId, userId) ==
  LET rows == { x \in db.transcript_feature_suggestions : x.id = suggestionId }
      t    == now + 1
      c    == ApproveTwoTableWork(db, seq, CHOOSE x \in rows : TRUE, userId, t)
  IN /\ Tick
     /\ mig.trail = <<>>
     /\ db.schema.columns = {}
     /\ IF rows = {}
        THEN /\ db' = db
             /\ seq' = seq
             /\ last' = Call("approveSuggestionTwoTable", <<suggestionId, userId>>, FALSE,
                             "Suggestion not found", 0)
             /\ Session(TryCatchFinally(1, TRUE))
        ELSE /\ db' = c.db
             /\ seq' = c.seq
             /\ last' = Call("approveSuggestionTwoTable", <<suggestionId, userId>>, TRUE,
                             "success", 0)
             /\ Session(TryCatchFinally(
                  (IF \E f \in db.features :
                        f.user_id = userId /\ f.feature_name \in { x.feature_name : x \in rows }
                   THEN 4 ELSE 5) + 2 * Len(QuotesOf(db, suggestionId)), FALSE))
     /\ UNCHANGED <<faults, proposed, mig>>

\* ================================================================ migration
\* One statement of a migration: its kind and, for the quote loop, the row
\* of quotesResult it handles.
MStmt(op, quote) == [op |-> op, quote |-> quote]

NoRow == [quote |-> "", pain_point |-> "", transcript_id |-> NULL, feature_name |-> ""]

\* ALTER TABLE features ADD COLUMN IF NOT EXISTS <column> ...: existing rows
\* take the column's default ('active' for status, NULL for the others).
AddColumn(c, column) ==
  IF column \in c.db.schema.columns THEN c
  ELSE [c EXCEPT !.db.schema.columns = @ \cup {column},
                 !.db.features =
                    { IF column = "status" THEN [f EXCEPT !.status = "active"]
                      ELSE IF column = "transcript_id" THEN [f EXCEPT !.transcript_id = NULL]
                      ELSE [f EXCEPT !.pain_points_count = NULL] : f \in @ }]

\* UPDATE features SET status = 'active' WHERE status IS NULL
SetActive(c) ==
  [c EXCEPT !.db.features =
     { IF f.status = "null" THEN [f EXCEPT !.status = "active"] ELSE f : f \in @ }]

\* The check without the table: the migration goes on as if it existed.
TableExistsAssumed(d) == TRUE

\* SELECT EXISTS (SELECT FROM information_schema.tables
\*                WHERE table_name = 'transcript_feature_suggestions')
TableExists(d) == "transcript_feature_suggestions" \in d.schema.tables

\* transcript_feature_suggestions tfs JOIN transcripts t ... WHERE NOT EXISTS
\* (a Feature of that name and user with is_suggestion = TRUE)
ToMigrate(d) ==
  { x \in d.transcript_feature_suggestions :
      \E t \in d.transcripts :
        /\ t.id = x.transcript_id
        /\ ~\E f \in d.features : /\ f.feature_name = x.feature_name
                                  /\ f.user_id = t.user_id
                                  /\ f.is_suggestion }

\* The mapping that leaves an ignored suggestion out of the live rows.
MigratedStatusIgnoredArchived(status) ==
  IF status = "approved" THEN "active"
  ELSE IF status = "ignored" THEN "archived" ELSE "pending"

\* CASE WHEN tfs.status = 'approved' THEN 'active' ELSE 'pending' END
MigratedStatus(status) == IF status = "approved" THEN "active" ELSE "pending"

\* INSERT INTO features (...) SELECT ... : one row per suggestion selected,
\* 'approved' becoming 'active' and every other status 'pending'.
InsertMigrated(c) ==
  IF "transcript_feature_suggestions" \notin c.db.schema.tables
  THEN [c EXCEPT !.error = TRUE]
  ELSE LET src == ToMigrate(c.db) IN
       [c EXCEPT
          !.seq.features = @ + Cardinality(src),
          !.db.features = @ \cup
             { [id |-> c.seq.features + Rank(x, src),
                user_id |-> (CHOOSE t \in c.db.transcripts : t.id = x.transcript_id).user_id,
                feature_name |-> x.feature_name, description |-> x.ai_summary,
                status |-> MigratedStatus(x.status),
                is_suggestion |-> TRUE, transcript_id |-> x.transcript_id,
                pain_points_count |-> x.pain_points_count, created_at |-> x.created_at]
               : x \in src }]

\* SELECT fsq.quote, fsq.pain_point, tfs.transcript_id, tfs.feature_name, t.user_id
\* FROM feature_suggestion_quotes fsq JOIN transcript_feature_suggestions tfs
\*   ON fsq.suggestion_id = tfs.id JOIN transcripts t ON tfs.transcript_id = t.id
\* The rows in the order of the quote ids.
QuotesResult(d) ==
  LET rows == { q \in d.feature_suggestion_quotes :
                  \E x \in d.transcript_feature_suggestions : x.id = q.suggestion_id }
  IN [i \in 1..Cardinality(rows) |->
        LET q == CHOOSE y \in rows : Rank(y, rows) = i
            x == CHOOSE y \in d.transcript_feature_suggestions : y.id = q.suggestion_id
        IN [quote |-> q.quote, pain_point |-> q.pain_point,
            transcript_id |-> x.transcript_id, feature_name |-> x.feature_name]]

\* DROP TABLE IF EXISTS <table> CASCADE
DropTable(c, table) ==
  [c EXCEPT !.db.schema.tables = @ \ {table},
            !.db[table] = {}]

\* The statements of migrateFeatureSuggestions after BEGIN, in order.
MigrateStmts(d) ==
  << MStmt("addStatus", NoRow), MStmt("addTranscriptId", NoRow), MStmt("addCount", NoRow),
     MStmt("setActive", NoRow), MStmt("tableCheck", NoRow) >>
  \o IF ~TableExists(d)
     THEN << MStmt("commit", NoRow) >>
     ELSE << MStmt("insertMigrated", NoRow), MStmt("selectQuotes", NoRow) >>
          \o Flat([i \in 1..Len(QuotesResult(d)) |->
                    << MStmt("insertPainPoint", QuotesResult(d)[i]),
                       MStmt("insertMapping", QuotesResult(d)[i]) >>])
          \o << MStmt("dropQuotes", NoRow), MStmt("dropSuggestions", NoRow),
                MStmt("commit", NoRow) >>

\* CREATE TABLE IF NOT EXISTS <table> (id SERIAL PRIMARY KEY, ...)
CreateTable(c, table) ==
  IF table \in c.db.schema.tables THEN c
  ELSE [c EXCEPT !.db.schema.tables = @ \cup {table},
                 !.db[table] = {},
                 !.seq[table] = 0]

\* features WHERE status = 'pending' AND is_suggestion = TRUE AND transcript_id IS NOT NULL
PendingSuggestions(d) ==
  { f \in d.features : f.status = "pending" /\ f.is_suggestion /\ f.transcript_id # NULL }

\* INSERT INTO transcript_feature_suggestions (...) SELECT transcript_id,
\* feature_name, description, status, pain_points_count, created_at FROM features
\* WHERE ...: raises when features lacks one of the columns it reads.
MoveBack(c) ==
  IF ~(AddedColumns \subseteq c.db.schema.columns)
  THEN [c EXCEPT !.error = TRUE]
  ELSE LET src == PendingSuggestions(c.db) IN
       [c EXCEPT
          !.seq.transcript_feature_suggestions = @ + Cardinality(src),
          !.db.transcript_feature_suggestions = @ \cup
             { [id |-> c.seq.transcript_feature_suggestions + Rank(f, src),
                transcript_id |-> f.transcript_id, feature_name |-> f.feature_name,
                ai_summary |-> f.description, status |-> f.status,
                pain_points_count |-> f.pain_points_count, created_at |-> f.created_at]
               : f \in src }]

\* DELETE FROM features WHERE status = 'pending' AND is_suggestion = TRUE
\*   AND transcript_id IS NOT NULL
DeletePending(c) ==
  IF ~(AddedColumns \subseteq c.db.schema.columns)
  THEN [c EXCEPT !.error = TRUE]
  ELSE [c EXCEPT !.db.features = @ \ PendingSuggestions(c.db)]

\* ALTER TABLE features DROP COLUMN IF EXISTS status, DROP COLUMN IF EXISTS
\* transcript_id, DROP COLUMN IF EXISTS pain_points_count
DropColumns(c) ==
  [c EXCEPT !.db.schema.columns = {},
            !.db.features = { [f EXCEPT !.status = NoColumn, !.transcript_id = NULL,
                                        !.pain_points_count = NULL] : f \in @ }]

\* The statements of rollbackMigration after BEGIN, in order.
RollbackStmts ==
  << MStmt("createSuggestions", NoRow), MStmt("createQuotes", NoRow), MStmt("moveBack", NoRow),
     MStmt("deletePending", NoRow), MStmt("dropColumns", NoRow), MStmt("commit", NoRow) >>

\* One statement on the connection; after a statement has raised no other runs.
MExec(c, st) ==
  IF c.error THEN c
  ELSE CASE st.op = "addStatus"         -> AddColumn(c, "status")
         [] st.op = "addTranscriptId"   -> AddColumn(c, "transcript_id")
         [] st.op = "addCount"          -> AddColumn(c, "pain_points_count")
         [] st.op = "setActive"         -> SetActive(c)
         [] st.op = "tableCheck"        -> c
         [] st.op = "insertMigrated"    -> InsertMigrated(c)
         [] st.op = "selectQuotes"      ->
              IF OldTables \subseteq c.db.schema.tables THEN c ELSE [c EXCEPT !.error = TRUE]
         [] st.op = "insertPainPoint"   ->
              InsertPainPoint([c EXCEPT !.transcriptId = st.quote.transcript_id],
                              [quote |-> st.quote.quote, painPoint |-> st.quote.pain_point])
         [] st.op = "insertMapping"     -> InsertMapping(c, st.quote.feature_name)
         [] st.op = "dropQuotes"        -> DropTable(c, "feature_suggestion_quotes")
         [] st.op = "dropSuggestions"   -> DropTable(c, "transcript_feature_suggestions")
         [] st.op = "createSuggestions" -> CreateTable(c, "transcript_feature_suggestions")
         [] st.op = "createQuotes"      -> CreateTable(c, "feature_suggestion_quotes")
         [] st.op = "moveBack"          -> MoveBack(c)
         [] st.op = "deletePending"     -> DeletePending(c)
         [] st.op = "dropColumns"       -> DropColumns(c)
         [] st.op = "commit"            -> c

RECURSIVE MRun(_, _, _)
MRun(c, stmts, n) ==
  IF n = 0 THEN c ELSE MExec(MRun(c, stmts, n - 1), stmts[n])

\* A migration call: the statements up to the failure, then COMMIT or the
\* catch block's ROLLBACK.  DDL is transactional: ROLLBACK undoes it too.
Migration(op, stmts, failAt) ==
  LET done == IF failAt = 0 THEN Len(stmts) ELSE failAt - 1
      c    == MRun(MCtx(db, seq), stmts, done)
      ok   == failAt = 0 /\ ~c.error
  IN /\ Len(mig.trail) < MaxMigrations
     /\ failAt <= Len(stmts)
     /\ Faulted(failAt)
     /\ pre' = db
     /\ db' = IF ok THEN c.db ELSE Rollback(db, c)
     /\ seq' = IF ok THEN c.seq ELSE seq
     /\ last' = Call(op, <<>>, ok, IF ok THEN "success" ELSE "error", failAt)
     /\ mig' = IF ~ok THEN mig
               ELSE [trail |-> Append(mig.trail, op),
                     first |-> IF op = "migrateFeatureSuggestions" /\ mig.first = {}
                               THEN c.db.features ELSE mig.first]
     /\ Session(TryCatchFinally(done, ~ok))
     /\ UNCHANGED <<now, proposed>>

migrateFeatureSuggestions(failAt) ==
  Migration("migrateFeatureSuggestions", MigrateStmts(db), failAt)

rollbackMigration(failAt) ==
  Migration("rollbackMigration", RollbackStmts, failAt)

\* ------------------------------------------------------ the calls
SaveTranscriptTwoTableCall ==
  \E userId \in Users, newFeatureSuggestions \in LegacySuggestions :
    saveTranscriptTwoTable(userId, <<>>, newFeatureSuggestions)

ApproveSuggestionTwoTableCall ==
  \E suggestionId \in IdsOf("transcript_feature_suggestions"), userId \in Users :
    approveSuggestionTwoTable(suggestionId, userId)

\* The failure points of a migration: every statement of its list.
MigrateFailPoints == 0..Len(MigrateStmts(db))

MigrateCall == \E failAt \in MigrateFailPoints : migrateFeatureSuggestions(failAt)

RollbackCall == \E failAt \in 0..Len(RollbackStmts) : rollbackMigration(failAt)
IgnoreSuggestionTwoTableCall ==
  \E suggestionId \in IdsOf("transcript_feature_suggestions") : ignoreSuggestion(suggestionId)

NextMigrate ==
  \/ SaveTranscriptTwoTableCall
  \/ ApproveSuggestionTwoTableCall
  \/ MigrateCall
  \/ RollbackCall
  \/ IgnoreSuggestionTwoTableCall

SpecMigrate == InitLegacy /\ [][NextMigrate]_vars

\* The two designs, the migrations and deleteTranscript, which both
\* designs export.
NextMigrateDelete ==
  \/ NextMigrate
  \/ DeleteTranscriptCall

SpecMigrateDelete == InitLegacy /\ [][NextMigrateDelete]_vars

\* ========================================================= concurrent calls
\* Two connections run transactions statement by statement under
\* PostgreSQL's default isolation, READ COMMITTED: a statement sees the
\* committed tables as they are when it starts, overlaid with what its own
\* transaction has written; a third connection reads without a transaction.
Conns == {1, 2}
Peer(k) == 3 - k
Tables == {"transcripts", "transcript_feature_summaries", "pain_points",
           "feature_mappings", "features"}

\* What an open transaction has written: rows it added (new rows and new
\* versions of rows) and the ids of the rows it replaced, which it has locked.
NoWrites == [added |-> [t \in Tables |-> {}], gone |-> [t \in Tables |-> {}]]

Lay(rows, w, t) == { r \in rows : r.id \notin w.gone[t] } \cup w.added[t]

\* The tables d with the writes w applied.
Overlay(d, w) ==
  [d EXCEPT !.transcripts = Lay(@, w, "transcripts"),
            !.transcript_feature_summaries = Lay(@, w, "transcript_feature_summaries"),
            !.pain_points = Lay(@, w, "pain_points"),
            !.feature_mappings = Lay(@, w, "feature_mappings"),
            !.features = Lay(@, w, "features")]

\* The writes of a transaction after a statement took its view from v to v2.
Written(w, v, v2) ==
  [added |-> [t \in Tables |-> (w.added[t] \ (v[t] \ v2[t])) \cup (v2[t] \ v[t])],
   gone  |-> [t \in Tables |-> w.gone[t] \cup { r.id : r \in v[t] \ v2[t] }]]

RECURSIVE OverlayAll(_, _)
OverlayAll(d, ws) == IF ws = <<>> THEN d ELSE OverlayAll(Overlay(d, Head(ws)), Tail(ws))

\* Isolation without READ COMMITTED: a statement sees what the open
\* transactions of the other connections have written so far.
ReadUncommitted(d, others) == OverlayAll(d, others)

\* READ COMMITTED: a statement sees committed rows only, whatever the open
\* transactions others of the other connections have written.
ReadCommitted(d, others) == d

\* The analyses of the concurrent calls: one suggestion each.
RaceAnalyses == { a \in Analyses : Len(a.newFeatureSuggestions) = 1 }

\* The updateFeature calls that run concurrently.
RaceUpdates == { [featureId |-> 1, featureName |-> "Export", description |-> "d",
                  userId |-> "default"] }

\* The approveSuggestion calls that run concurrently.
RaceApprovals == { [suggestionId |-> 1, userId |-> "default"] }

\* The saveFeatures calls that run concurrently: a list, and null.
RaceSaves == { [userId |-> "default", names |-> Array(<<"Slack">>)],
               [userId |-> "default", names |-> NullArray] }

NoArgs == [features |-> <<>>, newFeatureSuggestions |-> <<>>, featureId |-> NULL,
           featureName |-> "", description |-> "", userId |-> "", suggestionId |-> NULL,
           names |-> NullArray]

Idle ==
  [open |-> FALSE, fn |-> "none", args |-> NoArgs, stmts |-> <<>>, done |-> 0,
   c |-> Ctx(EmptyDb, 0), w |-> NoWrites, t |-> 0, oldFeatureName |-> "",
   overlap |-> FALSE, outcome |-> "none", error |-> "none", ends |-> <<>>]

\* The statements of updateFeature after BEGIN.
UpdateFeatureStmts ==
  << Stmt("selectOld", "", NoQuote, NoEntry, NULL),
     Stmt("updateRow", "", NoQuote, NoEntry, NULL),
     Stmt("renameMappings", "", NoQuote, NoEntry, NULL),
     Stmt("commit", "", NoQuote, NoEntry, NULL) >>

\* The statements of approveSuggestion after BEGIN.
ApproveStmts ==
  << Stmt("approve", "", NoQuote, NoEntry, NULL),
     Stmt("commit", "", NoQuote, NoEntry, NULL) >>

\* The statements of saveFeatures after BEGIN: the DELETE, the INSERT when
\* the list is not empty, COMMIT.
SaveFeaturesStmts(features) ==
  << Stmt("deleteUserDefined", "", NoQuote, NoEntry, NULL) >>
  \o (IF ~features.isNull /\ Len(features.names) > 0
      THEN << Stmt("insertUserDefined", "", NoQuote, NoEntry, NULL) >> ELSE <<>>)
  \o << Stmt("commit", "", NoQuote, NoEntry, NULL) >>

\* What the next statement of connection k sees.
View(k) == Overlay(ReadCommitted(db, <<conn[Peer(k)].w>>), conn[k].w)

\* The context of connection k after its next statement.
After(k) ==
  LET x  == conn[k]
      st == x.stmts[x.done + 1]
      c  == [x.c EXCEPT !.db = View(k), !.seq = seq]
      a  == x.args
  IN CASE st.op = "selectOld"      -> c
       [] st.op = "updateRow"      ->
            [c EXCEPT !.db = UpdateFeatureRow(@, a.featureId, a.featureName,
                                              a.description, a.userId)]
       [] st.op = "renameMappings" ->
            [c EXCEPT !.db = IF x.oldFeatureName # a.featureName
                             THEN RenameMappings(@, x.oldFeatureName, a.featureName)
                             ELSE @]
       [] st.op = "deleteUserDefined" -> [c EXCEPT !.db = DeleteUserDefined(@, a.userId)]
       [] st.op = "insertUserDefined" ->
            [c EXCEPT !.db = InsertUserDefined(@, c.seq, a.userId, a.names.names, x.t),
                      !.seq.features = @ + Len(a.names.names)]
       [] st.op = "approve"        ->
            [c EXCEPT !.db.features =
               SetStatus(@, ApproveRows(@, a.suggestionId, a.userId), "active")]
       [] OTHER                    -> Exec(c, st, a.userId, x.t)

\* The rows the next statement of k writes over, which it must lock.
Touched(k, t) == { r.id : r \in View(k)[t] \ After(k).db[t] }

\* A statement waits while a row it would update is locked by the open
\* transaction of the other connection.
Blocked(k) == \E t \in Tables : Touched(k, t) \cap conn[Peer(k)].w.gone[t] # {}

\* oldFeatureResult of the SELECT of updateFeature.
OldFeature(k) ==
  { f \in View(k).features : f.id = conn[k].args.featureId
                             /\ f.user_id = conn[k].args.userId }

\* The error the next statement of k makes the function throw, "none" when
\* it throws none: updateFeature finds no feature, approveSuggestion
\* updates no row.
Thrown(k) ==
  LET x  == conn[k]
      st == x.stmts[x.done + 1]
  IN CASE st.op = "selectOld" /\ OldFeature(k) = {} -> "Feature not found"
       [] st.op = "approve" ->
            ApproveError(ApproveRows(View(k).features, x.args.suggestionId, x.args.userId))
       [] OTHER -> "none"

\* pool.connect() hands out an idle client: the connections are
\* interchangeable, the pool takes the first idle one.
IdleConnection ==
  IF \A k \in Conns : conn[k].open THEN NULL ELSE Min({ k \in Conns : ~conn[k].open })

Checkout(n) == client' = [client EXCEPT !.checkedOut = @ + n]

\* pool.connect(); BEGIN of saveTranscript on connection k.
BeginSaveTranscript(k, userId, a) ==
  /\ k = IdleConnection
  /\ now < MaxTransactions
  /\ now' = now + 1
  /\ conn' = [conn EXCEPT ![k] =
       [Idle EXCEPT !.open = TRUE, !.fn = "saveTranscript",
                    !.args = [NoArgs EXCEPT !.features = a.features,
                                            !.newFeatureSuggestions = a.newFeatureSuggestions,
                                            !.userId = userId],
                    !.stmts = SaveTranscriptStmts(a.features, a.newFeatureSuggestions,
                                [i \in 1..Len(a.newFeatureSuggestions) |-> NULL]),
                    !.c = Ctx(db, seq), !.t = now + 1]]
  /\ Checkout(1)
  /\ UNCHANGED <<db, seq, faults, proposed, last, pre, reader, mig>>

\* pool.connect(); BEGIN of updateFeature on connection k.
BeginUpdateFeature(k, a) ==
  /\ k = IdleConnection
  /\ now < MaxTransactions
  /\ now' = now + 1
  /\ conn' = [conn EXCEPT ![k] =
       [Idle EXCEPT !.open = TRUE, !.fn = "updateFeature",
                    !.args = [NoArgs EXCEPT !.featureId = a.featureId,
                                            !.featureName = a.featureName,
                                            !.description = a.description,
                                            !.userId = a.userId],
                    !.stmts = UpdateFeatureStmts, !.c = Ctx(db, seq), !.t = now + 1]]
  /\ Checkout(1)
  /\ UNCHANGED <<db, seq, faults, proposed, last, pre, reader, mig>>

\* pool.connect(); BEGIN of approveSuggestion on connection k.
BeginApproveSuggestion(k, a) ==
  /\ k = IdleConnection
  /\ now < MaxTransactions
  /\ now' = now + 1
  /\ conn' = [conn EXCEPT ![k] =
       [Idle EXCEPT !.open = TRUE, !.fn = "approveSuggestion",
                    !.args = [NoArgs EXCEPT !.suggestionId = a.suggestionId,
                                            !.userId = a.userId],
                    !.stmts = ApproveStmts, !.c = Ctx(db, seq), !.t = now + 1]]
  /\ Checkout(1)
  /\ UNCHANGED <<db, seq, faults, proposed, last, pre, reader, mig>>

\* pool.connect(); BEGIN of saveFeatures on connection k.
BeginSaveFeatures(k, a) ==
  /\ k = IdleConnection
  /\ now < MaxTransactions
  /\ now' = now + 1
  /\ conn' = [conn EXCEPT ![k] =
       [Idle EXCEPT !.open = TRUE, !.fn = "saveFeatures",
                    !.args = [NoArgs EXCEPT !.userId = a.userId, !.names = a.names],
                    !.stmts = SaveFeaturesStmts(a.names), !.c = Ctx(db, seq),
                    !.t = now + 1]]
  /\ Checkout(1)
  /\ UNCHANGED <<db, seq, faults, proposed, last, pre, reader, mig>>

RaceArgs(k) ==
  CASE conn[k].fn = "saveTranscript" ->
         <<conn[k].args.userId, conn[k].args.features, conn[k].args.newFeatureSuggestions>>
    [] conn[k].fn = "approveSuggestion" ->
         <<conn[k].args.suggestionId, conn[k].args.userId>>
    [] conn[k].fn = "saveFeatures" -> <<conn[k].args.userId, conn[k].args.names>>
    [] OTHER ->
         <<conn[k].args.featureId, conn[k].args.featureName, conn[k].args.description,
           conn[k].args.userId>>

\* The transaction of k ends without a commit: nothing of it reaches the tables.
Close(k, outcome) ==
  conn' = [conn EXCEPT ![k].open = FALSE, ![k].outcome = outcome, ![k].w = NoWrites]

\* One statement of the open transaction of k, other than COMMIT.
Statement(k) ==
  LET x  == conn[k]
      st == x.stmts[x.done + 1]
      c2 == After(k)
      peerWrites == conn[Peer(k)].open /\ conn[Peer(k)].fn = "saveTranscript"
                    /\ conn[Peer(k)].args.userId = x.args.userId
  IN /\ x.open
     /\ st.op # "commit"
     /\ ~Blocked(k)
     /\ IF Thrown(k) # "none"
        THEN \* throw new Error(...); ROLLBACK; release
             /\ conn' = [conn EXCEPT ![k].open = FALSE, ![k].outcome = "rolled back",
                                     ![k].w = NoWrites, ![k].error = Thrown(k),
                                     ![k].ends = <<"ROLLBACK">>]
             /\ last' = Call(x.fn, RaceArgs(k), FALSE, Thrown(k), 0)
             /\ pre' = db
             /\ Checkout(-1)
             /\ UNCHANGED seq
        ELSE /\ conn' = [conn EXCEPT
                  ![k].done = @ + 1,
                  ![k].c = c2,
                  ![k].w = Written(x.w, View(k), c2.db),
                  ![k].oldFeatureName =
                     IF st.op = "selectOld"
                     THEN (CHOOSE f \in OldFeature(k) : TRUE).feature_name ELSE @,
                  ![k].overlap = @ \/ (st.op = "selectSimilar" /\ peerWrites)]
             /\ seq' = c2.seq
             /\ UNCHANGED <<last, pre, client>>
     /\ UNCHANGED <<db, now, faults, proposed, reader, mig>>

\* `return features.length` of saveFeatures, after COMMIT and inside the try
\* block: a TypeError when features is null.
ThrownAfterCommit(k) ==
  IF conn[k].fn = "saveFeatures" /\ conn[k].args.names.isNull THEN "TypeError" ELSE "none"

\* COMMIT: everything the transaction wrote becomes visible at once.  An
\* exception after it reaches the catch block, whose ROLLBACK finds no
\* open transaction.
Commit(k) ==
  LET x == conn[k]
      error == ThrownAfterCommit(k)
  IN
  /\ x.open
  /\ x.stmts[x.done + 1].op = "commit"
  /\ db' = Overlay(db, x.w)
  /\ pre' = db
  /\ proposed' = proposed \cup x.c.proposed
  /\ last' = Call(x.fn, RaceArgs(k), error = "none",
                  CASE error # "none" -> error
                    [] x.fn = "saveTranscript" -> x.c.transcriptId
                    [] x.fn = "approveSuggestion" -> "success"
                    [] x.fn = "saveFeatures" -> "saved"
                    [] OTHER -> "updated", 0)
  /\ conn' = [conn EXCEPT ![k].open = FALSE, ![k].outcome = "committed",
                          ![k].w = NoWrites, ![k].error = error,
                          ![k].ends = IF error = "none" THEN <<"COMMIT">>
                                      ELSE <<"COMMIT", "ROLLBACK">>]
  /\ Checkout(-1)
  /\ UNCHANGED <<seq, now, faults, reader, mig>>

\* The database fails at the next statement of k: the catch block rolls back.
Abort(k) ==
  LET x == conn[k] IN
  /\ x.open
  /\ Faulted(x.done + 1)
  /\ db' = Rollback(db, [db |-> Overlay(db, x.w)])
  /\ pre' = db
  /\ last' = Call(x.fn, RaceArgs(k), FALSE, "error", x.done + 1)
  /\ conn' = [conn EXCEPT ![k].open = FALSE, ![k].outcome = "rolled back",
                          ![k].w = NoWrites, ![k].error = "error",
                          ![k].ends = IF x.stmts[x.done + 1].op = "commit"
                                      THEN <<"COMMIT", "ROLLBACK">> ELSE <<"ROLLBACK">>]
  /\ Checkout(-1)
  /\ UNCHANGED <<seq, now, proposed, reader, mig>>

\* ----------------------------------------------------- getTranscriptById
\* What a SELECT on the reading connection sees.
Seen == ReadCommitted(db, <<conn[1].w, conn[2].w>>)

NoRead ==
  [pc |-> 0, transcriptId |-> NULL, result |-> "none", summaries |-> {},
   painPoints |-> {}, suggestions |-> {}, suggestionQuotes |-> {}]

\* SELECT pp.id, pp.pain_point, pp.quote, fm.feature_name FROM pain_points pp
\* JOIN feature_mappings fm ON pp.id = fm.pain_point_id WHERE pp.transcript_id = $1
PainPointsResult(d, transcriptId) ==
  { [id |-> pp.id, pain_point |-> pp.pain_point, quote |-> pp.quote,
     feature_name |-> m.feature_name]
    : <<pp, m>> \in { y \in d.pain_points \X d.feature_mappings :
                        /\ y[1].transcript_id = transcriptId
                        /\ y[2].pain_point_id = y[1].id } }

\* SELECT ... FROM features WHERE transcript_id = $1 AND status = 'pending'
SuggestionsResult(d, transcriptId) ==
  { f \in d.features : f.transcript_id = transcriptId /\ f.status = "pending" }

\* The statements of getTranscriptById, one step each: the transcript (null
\* when there is none), the summaries, the pain points, the suggestions and,
\* when there are suggestions, their quotes.
getTranscriptById(transcriptId) ==
  /\ reader.pc = 0
  /\ reader.result = "none"
  /\ transcriptId \in 1..seq.transcripts
  /\ reader' = IF \E x \in Seen.transcripts : x.id = transcriptId
               THEN [NoRead EXCEPT !.pc = 1, !.transcriptId = transcriptId]
               ELSE [NoRead EXCEPT !.result = "null", !.transcriptId = transcriptId]
  /\ UNCHANGED <<db, seq, now, faults, proposed, last, pre, client, conn, mig>>

ReadStatement ==
  /\ reader.pc > 0
  /\ reader' =
       CASE reader.pc = 1 ->
              [reader EXCEPT !.pc = 2,
                 !.summaries = { x \in Seen.transcript_feature_summaries :
                                   x.transcript_id = reader.transcriptId }]
         [] reader.pc = 2 ->
              [reader EXCEPT !.pc = 3,
                 !.painPoints = PainPointsResult(Seen, reader.transcriptId)]
         [] reader.pc = 3 ->
              LET rows == SuggestionsResult(Seen, reader.transcriptId) IN
              [reader EXCEPT !.pc = IF rows = {} THEN 0 ELSE 4,
                             !.result = IF rows = {} THEN "transcript" ELSE @,
                             !.suggestions = rows]
         [] reader.pc = 4 ->
              [reader EXCEPT !.pc = 0, !.result = "transcript",
                 !.suggestionQuotes =
                    { r \in PainPointsResult(Seen, reader.transcriptId) :
                        r.feature_name \in { f.feature_name : f \in reader.suggestions } }]
  /\ UNCHANGED <<db, seq, now, faults, proposed, last, pre, client, conn, mig>>

\* ------------------------------------------------------ the calls
\* The database after initDatabase, both connections idle, nothing read.
InitRace ==
  /\ db = EmptyDb
  /\ seq = [ transcripts |-> 0, transcript_feature_summaries |-> 0,
             pain_points |-> 0, feature_mappings |-> 0, features |-> 0,
             transcript_feature_suggestions |-> 0, feature_suggestion_quotes |-> 0 ]
  /\ now = 0
  /\ faults = 0
  /\ proposed = {}
  /\ last = [op |-> "init", args |-> <<>>, ok |-> TRUE, ret |-> NULL, failAt |-> 0]
  /\ pre = EmptyDb
  /\ client = [checkedOut |-> 0, log |-> <<>>]
  /\ mig = [trail |-> <<>>, first |-> {}]
  /\ conn = [k \in Conns |-> Idle]
  /\ reader = NoRead

BeginSaveTranscriptCall ==
  \E k \in Conns, userId \in Users, a \in RaceAnalyses : BeginSaveTranscript(k, userId, a)
BeginUpdateFeatureCall == \E k \in Conns, a \in RaceUpdates : BeginUpdateFeature(k, a)
StatementCall == \E k \in Conns : Statement(k)
CommitCall == \E k \in Conns : Commit(k)
AbortCall == \E k \in Conns : Abort(k)
GetTranscriptByIdCall == \E transcriptId \in 1..MaxTransactions : getTranscriptById(transcriptId)

\* Two writing connections.
NextRace ==
  \/ BeginSaveTranscriptCall
  \/ BeginUpdateFeatureCall
  \/ StatementCall
  \/ CommitCall
  \/ AbortCall

SpecRace == InitRace /\ [][NextRace]_vars

\* Two writing connections and the reading one.
NextRead ==
  \/ BeginSaveTranscriptCall
  \/ BeginUpdateFeatureCall
  \/ StatementCall
  \/ CommitCall
  \/ AbortCall
  \/ GetTranscriptByIdCall
  \/ ReadStatement

SpecRead == InitRace /\ [][NextRead]_vars

\* ------------------------------------------- concurrent calls on stored rows
\* The tables after saveTranscript('default', [], [Slack with one quote]):
\* one transcript, one pain point mapped to Slack, pending Feature 1 'Slack'.
SeedAnalysis == [features |-> <<>>, newFeatureSuggestions |-> <<E("Slack", 1)>>]

Seeded ==
  LET stmts == SaveTranscriptStmts(SeedAnalysis.features,
                                   SeedAnalysis.newFeatureSuggestions, <<NULL>>)
  IN Run(Ctx(EmptyDb, [ transcripts |-> 0, transcript_feature_summaries |-> 0,
                        pain_points |-> 0, feature_mappings |-> 0, features |-> 0,
                        transcript_feature_suggestions |-> 0,
                        feature_suggestion_quotes |-> 0 ]),
         stmts, Len(stmts), "default", 0)

InitSeeded ==
  /\ db = Seeded.db
  /\ seq = Seeded.seq
  /\ now = 0
  /\ faults = 0
  /\ proposed = Seeded.proposed
  /\ last = Call("saveTranscript", <<"default", SeedAnalysis.features,
                                     SeedAnalysis.newFeatureSuggestions>>, TRUE, 1, 0)
  /\ pre = EmptyDb
  /\ client = [checkedOut |-> 0, log |-> <<>>]
  /\ mig = [trail |-> <<>>, first |-> {}]
  /\ conn = [k \in Conns |-> Idle]
  /\ reader = NoRead

BeginApproveSuggestionCall ==
  \E k \in Conns, a \in RaceApprovals : BeginApproveSuggestion(k, a)

\* Two writing connections on the stored rows.
NextSeeded ==
  \/ BeginSaveTranscriptCall
  \/ BeginApproveSuggestionCall
  \/ BeginUpdateFeatureCall
  \/ StatementCall
  \/ CommitCall
  \/ AbortCall

SpecSeeded == InitSeeded /\ [][NextSeeded]_vars

\* ----------------------------------------------- calls under fair scheduling
BeginSaveFeaturesCall == \E k \in Conns, a \in RaceSaves : BeginSaveFeatures(k, a)

\* The four transactional writers on two connections, the database
\* answering every statement.
NextFair ==
  \/ BeginSaveTranscriptCall
  \/ BeginApproveSuggestionCall
  \/ BeginUpdateFeatureCall
  \/ BeginSaveFeaturesCall
  \/ StatementCall
  \/ CommitCall

\* Node runs every continuation whose query has been answered, and
\* PostgreSQL answers every statement that is not waiting for a lock.
SpecFair ==
  /\ InitSeeded
  /\ [][NextFair]_vars
  /\ \A k \in Conns : WF_vars(Statement(k)) /\ WF_vars(Commit(k))

\* --------------------------------- getFeatureDetails beside concurrent writes
\* The reading connection of getFeatureDetails: nothing asked yet.
NoDetails ==
  [pc |-> 0, featureName |-> "", userId |-> "", result |-> "none", feature |-> {},
   transcripts |-> <<>>]

\* SELECT id, feature_name, description, is_suggestion FROM features
\* WHERE feature_name = $1 AND user_id = $2
FeatureResult(d, featureName, userId) ==
  { [id |-> f.id, feature_name |-> f.feature_name, description |-> f.description,
     is_suggestion |-> f.is_suggestion]
    : f \in { g \in d.features : g.feature_name = featureName /\ g.user_id = userId } }

\* The first pool.query of getFeatureDetails: null when it returns no row.
FeatureQuery(featureName, userId) ==
  /\ reader.pc = 0
  /\ reader.result = "none"
  /\ reader' = LET rows == FeatureResult(Seen, featureName, userId) IN
               IF rows = {}
               THEN [NoDetails EXCEPT !.featureName = featureName, !.userId = userId,
                                      !.result = "null"]
               ELSE [NoDetails EXCEPT !.featureName = featureName, !.userId = userId,
                                      !.pc = 1, !.feature = rows]
  /\ UNCHANGED <<db, seq, now, faults, proposed, last, pre, client, conn, mig>>

\* The second pool.query of getFeatureDetails, the grouping and the return.
PainPointsQuery ==
  /\ reader.pc = 1
  /\ reader' = [reader EXCEPT
       !.pc = 0, !.result = "feature",
       !.transcripts =
          GroupByTranscript(OrderRows(DetailRows(Seen, reader.featureName, reader.userId)))]
  /\ UNCHANGED <<db, seq, now, faults, proposed, last, pre, client, conn, mig>>

\* deleteTranscript beside open transactions: the one DELETE, with its
\* cascades, commits by itself; it waits while a row it removes or updates
\* is locked by an open transaction.
DeleteTranscriptStatement(transcriptId) ==
  LET d2 == DeleteTranscriptRow(db, transcriptId) IN
  /\ now < MaxTransactions
  /\ now' = now + 1
  /\ \A k \in Conns : \A t \in Tables :
       { r.id : r \in db[t] \ d2[t] } \cap conn[k].w.gone[t] = {}
  /\ db' = d2
  /\ pre' = db
  /\ last' = Call("deleteTranscript", <<transcriptId>>, TRUE, NULL, 0)
  /\ UNCHANGED <<seq, faults, proposed, client, conn, reader, mig>>

InitDetails ==
  /\ db = Seeded.db
  /\ seq = Seeded.seq
  /\ now = 0
  /\ faults = 0
  /\ proposed = Seeded.proposed
  /\ last = Call("saveTranscript", <<"default", SeedAnalysis.features,
                                     SeedAnalysis.newFeatureSuggestions>>, TRUE, 1, 0)
  /\ pre = EmptyDb
  /\ client = [checkedOut |-> 0, log |-> <<>>]
  /\ mig = [trail |-> <<>>, first |-> {}]
  /\ conn = [k \in Conns |-> Idle]
  /\ reader = NoDetails

GetFeatureDetailsCall ==
  \E featureName \in Names, userId \in Users : FeatureQuery(featureName, userId)
DeleteTranscriptStatementCall ==
  \E transcriptId \in 1..MaxTransactions : DeleteTranscriptStatement(transcriptId)

\* getFeatureDetails beside updateFeature and deleteTranscript.
NextDetails ==
  \/ GetFeatureDetailsCall
  \/ PainPointsQuery
  \/ BeginUpdateFeatureCall
  \/ StatementCall
  \/ CommitCall
  \/ AbortCall
  \/ DeleteTranscriptStatementCall

SpecDetails == InitDetails /\ [][NextDetails]_vars

\* ================================================================== claims
IsCall(op) == last.op = op
Succeeded(op) == last.op = op /\ last.ok
Failed(op) == last.op = op /\ ~last.ok

\* ------------------------------------------------------------------ C1
\* C1: a saveTranscript call that fails at any statement after BEGIN leaves
\* every committed table exactly as it was before the call: no transcript,
\* summary, pain point, mapping or feature row of the call exists and no
\* pain_points_count has changed.
C1_FailedSaveLeavesNoTrace ==
  Failed("saveTranscript") =>
    /\ db.transcripts = pre.transcripts
    /\ db.transcript_feature_summaries = pre.transcript_feature_summaries
    /\ db.pain_points = pre.pain_points
    /\ db.feature_mappings = pre.feature_mappings
    /\ db.features = pre.features

\* A call that had inserted its transcript, a pain point and a mapping and
\* had bumped or created a suggestion when the database failed, on a
\* database that already held a transcript.
C1_Witness ==
  /\ Failed("saveTranscript")
  /\ last.failAt > 5
  /\ Len(last.args[3]) > 0
  /\ pre.transcripts # {}
  /\ pre.features # {}
  /\ seq.pain_points > Cardinality(db.pain_points)

\* ------------------------------------------------------------------ C2
\* The quote entries of a list of analysis entries, in the order written.
QuoteEntries(entries) ==
  Flat([i \in 1..Len(entries) |->
         [j \in 1..Len(entries[i].quotes) |->
            [featureName |-> entries[i].featureName, quoteObj |-> entries[i].quotes[j]]]])

PainPointsOf(d, transcriptId) == { p \in d.pain_points : p.transcript_id = transcriptId }
MappingsOf(d, painPointId) == { m \in d.feature_mappings : m.pain_point_id = painPointId }

\* C2: after a successful saveTranscript the returned transcriptId names
\* exactly one transcript row, new in this call; the pain points of that
\* transcript are one per quote entry of features[].quotes and
\* newFeatureSuggestions[].quotes, no more and no fewer; each of them has
\* exactly one feature mapping, created by the call.
C2_TranscriptHoldsExactlyItsQuotes ==
  Succeeded("saveTranscript") =>
    LET transcriptId == last.ret
        quotes == QuoteEntries(last.args[2]) \o QuoteEntries(last.args[3])
        pps    == PainPointsOf(db, transcriptId)
    IN /\ Cardinality({ t \in db.transcripts : t.id = transcriptId }) = 1
       /\ \A t \in pre.transcripts : t.id # transcriptId
       /\ PainPointsOf(pre, transcriptId) = {}
       /\ Cardinality(pps) = Len(quotes)
       /\ \E g \in [1..Len(quotes) -> pps] :
            /\ \A i, j \in 1..Len(quotes) : i # j => g[i] # g[j]
            /\ \A i \in 1..Len(quotes) :
                 /\ g[i].quote = quotes[i].quoteObj.quote
                 /\ g[i].pain_point = quotes[i].quoteObj.painPoint
       /\ \A p \in pps :
            /\ Cardinality(MappingsOf(db, p.id)) = 1
            /\ MappingsOf(db, p.id) \cap pre.feature_mappings = {}

\* A call with a known feature and a new suggestion, two quotes in all,
\* on a database that already holds pain points of an earlier transcript.
C2_Witness ==
  /\ Succeeded("saveTranscript")
  /\ Len(last.args[2]) > 0
  /\ Len(last.args[3]) > 0
  /\ Cardinality(PainPointsOf(db, last.ret)) = 2
  /\ pre.pain_points # {}

\* ------------------------------------------------------------------ C3
NamedLike(features, userId, featureName) ==
  { f \in features : f.user_id = userId /\ LOWER(f.feature_name) = LOWER(featureName) }

ProposersOf(featureId) == { x[1] : x \in { y \in proposed : y[2] = featureId } }

C4_CountIsDistinctTranscripts ==
  \A f \in db.features :
    f.status = "pending" =>
      f.pain_points_count =
        Cardinality({ t \in db.transcripts : t.id \in ProposersOf(f.id) })

\* One call that listed the same name twice: a pending row counted 2 with
\* a single proposing transcript.
C4_Witness ==
  /\ Succeeded("saveTranscript")
  /\ \E f \in db.features :
       /\ f.status = "pending"
       /\ f.pain_points_count = 2
       /\ Cardinality(ProposersOf(f.id)) = 1

\* ------------------------------------------------------------------ C5
Row(features, id) == { f \in features : f.id = id }

\* C5 (approve law): approveSuggestion on a pending row of the calling user
\* succeeds and changes that row's status to active and nothing else; on a
\* row that is no longer pending it reports an error and changes nothing;
\* and no call turns an active row back into a pending one, so every later
\* approval of the same row is such an error.
C5_ApproveLaw ==
  /\ IsCall("approveSuggestion") =>
       LET rows == Row(pre.features, last.args[1]) IN
       /\ (\E f \in rows : f.user_id = last.args[2] /\ f.status = "pending") =>
             /\ last.ok
             /\ db = [pre EXCEPT !.features = SetStatus(@, rows, "active")]
       /\ (\E f \in rows : f.status # "pending") =>
             /\ ~last.ok
             /\ db = pre
  /\ \A f \in pre.features : \A g \in db.features :
       (g.id = f.id /\ f.status = "active") => g.status # "pending"

\* The second approval, by its owner, of a suggestion that was approved.
C5_Witness ==
  /\ Failed("approveSuggestion")
  /\ \E f \in db.features :
       /\ f.id = last.args[1]
       /\ f.user_id = last.args[2]
       /\ f.is_suggestion
       /\ f.status = "active"

\* ------------------------------------------------------------------ C6
\* C6: approveSuggestion with an id that names no row of the calling user
\* (no such row, or a row of another user) reports an error and leaves
\* every Feature row, and every other table, as it was.
C6_ApproveOnlyOwnRows ==
  IsCall("approveSuggestion") =>
    ( (\A f \in Row(pre.features, last.args[1]) : f.user_id # last.args[2])
      => (~last.ok /\ db = pre) )

\* An approval of another user's pending suggestion.
C6_Witness ==
  /\ Failed("approveSuggestion")
  /\ \E f \in db.features :
       /\ f.id = last.args[1]
       /\ f.user_id # last.args[2]
       /\ f.status = "pending"

\* ------------------------------------------------------------------ C7
Forward == { <<"pending", "active">>, <<"pending", "archived">>, <<"active", "archived">> }

C8_NoDuplicateLiveNames ==
  \A f, g \in db.features :
    ( /\ f.id # g.id
      /\ f.user_id = g.user_id
      /\ f.status \in {"pending", "active"}
      /\ g.status \in {"pending", "active"} )
    => f.feature_name # g.feature_name

\* A saveTranscript that proposed a name the user already had an active
\* row for, and left a second, pending row of that name.
C8_Witness ==
  /\ Succeeded("saveTranscript")
  /\ \E f, g \in db.features :
       /\ f.user_id = g.user_id
       /\ f.feature_name = g.feature_name
       /\ f.status = "active"
       /\ f \in pre.features
       /\ g.status = "pending"
       /\ g \notin pre.features

\* ------------------------------------------------------------------ C9
OldName(id) == (CHOOSE f \in pre.features : f.id = id).feature_name

Named(mappings, featureName) == { m \in mappings : m.feature_name = featureName }

\* C9: after a successful updateFeature that changes the name, every
\* mapping that carried the old name carries the new one, no mapping
\* carries the old name and no other mapping has changed; when the name is
\* unchanged no mapping row changes.
C9_RenameRetargetsMappings ==
  Succeeded("updateFeature") =>
    LET oldName == OldName(last.args[1])
        newName == last.args[2]
    IN IF oldName # newName
       THEN /\ Named(db.feature_mappings, oldName) = {}
            /\ \A m \in Named(pre.feature_mappings, oldName) :
                 [m EXCEPT !.feature_name = newName] \in db.feature_mappings
            /\ pre.feature_mappings \ Named(pre.feature_mappings, oldName)
                 \subseteq db.feature_mappings
            /\ Cardinality(db.feature_mappings) = Cardinality(pre.feature_mappings)
       ELSE db.feature_mappings = pre.feature_mappings

\* A rename of a feature that had three or more mappings under its old name.
C9_Witness ==
  /\ Succeeded("updateFeature")
  /\ OldName(last.args[1]) # last.args[2]
  /\ Cardinality(Named(pre.feature_mappings, OldName(last.args[1]))) >= 3
  /\ Named(db.feature_mappings, last.args[2]) # {}

\* ------------------------------------------------------------------ C10
\* C10: updateFeature is atomic.  A call that reports an error (a database
\* failure at any statement, or 'Feature not found' for an id that does not
\* exist or belongs to another user) leaves the features and the
\* feature_mappings tables as they were; a call that succeeds has committed
\* both the row's new name and description and the mapping renames.
C10_UpdateIsAtomic ==
  IsCall("updateFeature") =>
    IF last.ok
    THEN LET oldName == OldName(last.args[1]) IN
         /\ \E f \in db.features :
              /\ f.id = last.args[1]
              /\ f.feature_name = last.args[2]
              /\ f.description = last.args[3]
         /\ oldName # last.args[2] =>
              /\ Named(db.feature_mappings, oldName) = {}
              /\ \A m \in Named(pre.feature_mappings, oldName) :
                   [m EXCEPT !.feature_name = last.args[2]] \in db.feature_mappings
    ELSE /\ db.features = pre.features
         /\ db.feature_mappings = pre.feature_mappings
         /\ ( /\ last.failAt = 0
              /\ \A f \in Row(pre.features, last.args[1]) : f.user_id # last.args[4] )
              => last.ret = "Feature not found"

\* A rename that failed at the UPDATE of feature_mappings, after the
\* UPDATE of the feature row, with mappings under the old name.
C10_Witness ==
  /\ Failed("updateFeature")
  /\ last.failAt = 3
  /\ Row(pre.features, last.args[1]) # {}
  /\ OldName(last.args[1]) # last.args[2]
  /\ Named(pre.feature_mappings, OldName(last.args[1])) # {}

\* ------------------------------------------------------------------ C11
Authored(features, userId) ==
  { f \in features : f.user_id = userId /\ ~f.is_suggestion }

OfUser(features, userId) == { f \in features : f.user_id = userId }

C13_ListReturnsOnlyActive ==
  \A userId \in Users :
    LET active == { f \in db.features : f.user_id = userId /\ f.status = "active" } IN
    /\ { getFeatures(userId)[i].id : i \in DOMAIN getFeatures(userId) }
         = { f.id : f \in active }
    /\ Len(getFeatureNames(userId)) = Cardinality(active)

\* A suggestion just created by saveTranscript, still pending, in the list.
C13_Witness ==
  /\ Succeeded("saveTranscript")
  /\ \E f \in db.features \ pre.features :
       /\ f.status = "pending"
       /\ \E i \in DOMAIN getFeatures(f.user_id) : getFeatures(f.user_id)[i].id = f.id
       /\ \E i \in DOMAIN getFeatureNames(f.user_id) :
            getFeatureNames(f.user_id)[i] = f.feature_name

\* ------------------------------------------------------------------ C14
Contributors(featureName) ==
  { t \in db.transcripts :
      \E pp \in db.pain_points : \E fm \in db.feature_mappings :
        /\ pp.transcript_id = t.id
        /\ fm.pain_point_id = pp.id
        /\ fm.feature_name = featureName }

\* C14: getAllFeaturesWithCounts(user) returns one row per Feature of the
\* user, and its painPointCount is the number of distinct stored
\* transcripts with at least one pain point mapped to the feature's name.
C14_CountIsDistinctContributors ==
  \A userId \in Users :
    /\ { r.id : r \in getAllFeaturesWithCounts(userId) }
         = { f.id : f \in OfUser(db.features, userId) }
    /\ \A r \in getAllFeaturesWithCounts(userId) :
         r.painPointCount = Cardinality(Contributors(r.feature_name))

\* A feature counted 2 from three or more mapped quotes, beside a feature
\* with no mapping counted 0.
C14_Witness ==
  \E userId \in Users : \E r1, r2 \in getAllFeaturesWithCounts(userId) :
    /\ r1.painPointCount = 2
    /\ Cardinality(Named(db.feature_mappings, r1.feature_name)) >= 3
    /\ r2.painPointCount = 0

\* ------------------------------------------------------------------ C15
Unlinked(features) == { [f EXCEPT !.transcript_id = NULL] : f \in features }

\* C15: deleteTranscript(t) removes transcript t, the pain points of t and
\* the mappings of those pain points, and nothing else of those tables; it
\* removes no Feature row and changes none, apart from clearing the
\* transcript_id of the rows that originated in t.
C15_DeleteTranscriptKeepsFeatures ==
  IsCall("deleteTranscript") =>
    LET t    == last.args[1]
        gone == { pp.id : pp \in PainPointsOf(pre, t) }
    IN /\ db.transcripts = { x \in pre.transcripts : x.id # t }
       /\ db.pain_points = pre.pain_points \ PainPointsOf(pre, t)
       /\ db.feature_mappings = { m \in pre.feature_mappings : m.pain_point_id \notin gone }
       /\ { f.id : f \in db.features } = { f.id : f \in pre.features }
       /\ Unlinked(db.features) = Unlinked(pre.features)
       /\ \A f \in pre.features : f.transcript_id # t => f \in db.features
       /\ \A f \in db.features : f.transcript_id # t

\* The delete of a transcript that had mapped pain points and was the
\* origin of a suggestion, with another transcript left in place.
C15_Witness ==
  /\ IsCall("deleteTranscript")
  /\ \E f \in pre.features : f.transcript_id = last.args[1]
  /\ \E pp \in PainPointsOf(pre, last.args[1]) : MappingsOf(pre, pp.id) # {}
  /\ db.pain_points # {}
  /\ db.feature_mappings # {}

\* ------------------------------------------------------------------ C16
MigrationCall == last.op \in {"migrateFeatureSuggestions", "rollbackMigration"}

\* The successful migrations before the latest call.
PrevTrail ==
  IF MigrationCall /\ last.ok THEN SubSeq(mig.trail, 1, Len(mig.trail) - 1) ELSE mig.trail

\* C16: migrateFeatureSuggestions run again right after a successful run,
\* with a database that answers every statement, succeeds and leaves the
\* schema and every table's rows exactly as the first run left them.
C16_MigrateIsIdempotent ==
  ( /\ IsCall("migrateFeatureSuggestions")
    /\ last.failAt = 0
    /\ PrevTrail # <<>>
    /\ PrevTrail[Len(PrevTrail)] = "migrateFeatureSuggestions" )
  => (last.ok /\ db = pre)

\* A second run over a database whose first run migrated a suggestion and
\* its quotes.
C16_Witness ==
  /\ Succeeded("migrateFeatureSuggestions")
  /\ mig.trail = <<"migrateFeatureSuggestions", "migrateFeatureSuggestions">>
  /\ \E f \in db.features : f.is_suggestion /\ f.status = "pending"
  /\ db.pain_points # {}

\* ------------------------------------------------------------------ C17
\* C17: a migrateFeatureSuggestions or rollbackMigration call that fails at
\* any statement leaves the schema and the rows of every table exactly as
\* they were before the call.
C17_FailedMigrationLeavesNoTrace ==
  (MigrationCall /\ ~last.ok) => db = pre

\* A migration that failed at one of its DROP TABLE statements or at COMMIT,
\* after it had added the columns and copied suggestions and quotes.
C17_Witness ==
  /\ Failed("migrateFeatureSuggestions")
  /\ last.failAt >= Len(MigrateStmts(pre)) - 2
  /\ pre.schema.columns = {}
  /\ ToMigrate(pre) # {}
  /\ pre.feature_suggestion_quotes # {}

\* ------------------------------------------------------------------ C18
\* The attributes of a Feature row apart from its surrogate id.
Attr(f) ==
  [user_id |-> f.user_id, feature_name |-> f.feature_name, description |-> f.description,
   status |-> f.status, is_suggestion |-> f.is_suggestion, transcript_id |-> f.transcript_id,
   pain_points_count |-> f.pain_points_count]

RoundTrip == <<"migrateFeatureSuggestions", "rollbackMigration", "migrateFeatureSuggestions">>

\* C18: after Migrate, Rollback, Migrate with no other write in between, the
\* Feature rows have, up to their ids, the attributes they had after the
\* first Migrate.
C18_RoundTripRestoresFeatures ==
  (Succeeded("migrateFeatureSuggestions") /\ mig.trail = RoundTrip) =>
    /\ { Attr(f) : f \in db.features } = { Attr(f) : f \in mig.first }
    /\ Cardinality(db.features) = Cardinality(mig.first)

\* A round trip over a database that held an approved suggestion: the row
\* the first Migrate made of it has no equal after the second.
C18_Witness ==
  /\ Succeeded("migrateFeatureSuggestions")
  /\ mig.trail = RoundTrip
  /\ \E f \in mig.first :
       /\ f.status = "active"
       /\ f.is_suggestion
       /\ f.transcript_id # NULL
       /\ \A g \in db.features : Attr(g) # Attr(f)

\* ------------------------------------------------------------------ C19
\* The pain points a migrated quote of suggestion x should have become.
CopiesOf(d, x, q) ==
  { pp \in d.pain_points : pp.transcript_id = x.transcript_id /\ pp.quote = q.quote }

\* C19: after Migrate, every quote the deprecated design held for a
\* suggestion, pending or approved, is exactly one pain point on the
\* suggestion's transcript, with exactly one mapping, to the suggestion's
\* feature name.
C19_MigrationCopiesQuotesOnce ==
  (Succeeded("migrateFeatureSuggestions") /\ TableExists(pre)) =>
    \A q \in pre.feature_suggestion_quotes :
      \A x \in pre.transcript_feature_suggestions :
        x.id = q.suggestion_id =>
          /\ Cardinality(CopiesOf(db, x, q)) = 1
          /\ \A pp \in CopiesOf(db, x, q) :
               /\ Cardinality(MappingsOf(db, pp.id)) = 1
               /\ \A m \in MappingsOf(db, pp.id) : m.feature_name = x.feature_name

\* A migration of a suggestion approved under the two-table design: its
\* quote is on the transcript twice.
C19_Witness ==
  /\ Succeeded("migrateFeatureSuggestions")
  /\ \E x \in pre.transcript_feature_suggestions :
       /\ x.status = "approved"
       /\ \E q \in pre.feature_suggestion_quotes :
            /\ q.suggestion_id = x.id
            /\ Cardinality(CopiesOf(db, x, q)) = 2

\* ------------------------------------------------------------------ C20
Transactional ==
  { "saveTranscript", "approveSuggestion", "saveFeatures", "updateFeature",
    "migrateFeatureSuggestions", "rollbackMigration",
    "saveTranscriptTwoTable", "approveSuggestionTwoTable" }

\* C20: a multi-statement operation takes one connection and releases it
\* exactly once, as its last step, on every exit path; when it fails, the
\* ROLLBACK is issued before the release; and when the call has returned
\* no connection is checked out.
C20_ConnectionReleasedOnce ==
  /\ client.checkedOut = 0
  /\ last.op \in Transactional =>
       /\ Count(client.log, "connect") = 1
       /\ Count(client.log, "release") = 1
       /\ client.log[Len(client.log)] = "release"
       /\ ~last.ok =>
            \E i, j \in DOMAIN client.log :
              i < j /\ client.log[i] = "ROLLBACK" /\ client.log[j] = "release"
       /\ last.ok => Count(client.log, "ROLLBACK") = 0

\* An updateFeature that failed after its first UPDATE: rolled back, then
\* released.
C20_Witness ==
  /\ Failed("updateFeature")
  /\ last.failAt >= 3
  /\ Count(client.log, "ROLLBACK") = 1
  /\ client.log[Len(client.log)] = "release"
  /\ client.checkedOut = 0

\* ------------------------------------------------------------------ C21
\* The lower-cased names the saveTranscript call of connection k suggests.
Suggested(k) ==
  { LOWER(conn[k].args.newFeatureSuggestions[i].featureName)
    : i \in DOMAIN conn[k].args.newFeatureSuggestions }

PendingNamed(d, userId, lower) ==
  { f \in d.features : f.user_id = userId /\ f.status = "pending"
                       /\ LOWER(f.feature_name) = lower }

\* The two calls so far are saveTranscript calls of one user, both
\* committed, k the later to commit, and k looked the name up while the
\* transaction of the other connection was still open.
Raced(k) ==
  /\ now = 2
  /\ \A j \in Conns : /\ ~conn[j].open
                      /\ conn[j].outcome = "committed"
                      /\ conn[j].fn = "saveTranscript"
  /\ conn[1].args.userId = conn[2].args.userId
  /\ last.op = "saveTranscript"
  /\ last.ret = conn[k].c.transcriptId
  /\ conn[k].overlap

\* C21: when two saveTranscript calls of one user suggest the same name
\* and the second looks it up before the first has committed, with no
\* pending row of that name committed, both insert: the committed tables
\* hold two pending rows of that name, each with pain_points_count 1.
C21_ConcurrentSuggestionsDuplicate ==
  \A k \in Conns :
    Raced(k) =>
      \A lower \in Suggested(1) \cap Suggested(2) :
        LET rows == PendingNamed(db, conn[k].args.userId, lower) IN
        /\ Cardinality(rows) = 2
        /\ \A f \in rows : f.pain_points_count = 1

\* Two raced calls for 'Slack' and 'slack': two pending rows, one each.
C21_Witness ==
  \E k \in Conns :
    /\ Raced(k)
    /\ Suggested(1) \cap Suggested(2) # {}
    /\ Cardinality(PendingNamed(db, conn[k].args.userId, "slack")) = 2
    /\ \A f \in PendingNamed(db, conn[k].args.userId, "slack") : f.pain_points_count = 1

\* ------------------------------------------------------------------ C22
\* The reading connection sees nothing an open transaction has written:
\* none of the rows it added, and the rows it replaced as they were committed.
SeesNoneOf(w) ==
  \A t \in Tables :
    /\ Seen[t] \cap w.added[t] = {}
    /\ \A r \in db[t] : r.id \in w.gone[t] => r \in Seen[t]

\* What getTranscriptById returned is the whole of what the writer of that
\* transcript committed.
ReadIsComplete ==
  /\ \E x \in db.transcripts : x.id = reader.transcriptId
  /\ reader.summaries =
       { x \in db.transcript_feature_summaries : x.transcript_id = reader.transcriptId }
  /\ { r.id : r \in reader.painPoints } =
       { r.id : r \in PainPointsResult(db, reader.transcriptId) }
  /\ { r.id : r \in reader.painPoints } =
       { pp.id : pp \in PainPointsOf(db, reader.transcriptId) }
  /\ { f.id : f \in reader.suggestions } =
       { f.id : f \in SuggestionsResult(db, reader.transcriptId) }

Target(d) == { f \in d.features : f.id = last.args[1] }

\* The approval met a row of the caller that is not pending.
Conflict ==
  /\ Failed("approveSuggestion")
  /\ \E f \in Target(pre) : f.user_id = last.args[2] /\ f.status # "pending"

\* C23: the error for approving a suggestion that exists but is not
\* pending differs, in what the caller receives, from the error for an id
\* that names no row of the caller.
C23_NotFoundDistinctFromConflict ==
  Conflict =>
    ApproveResponse(last.ret) #
      ApproveResponse(ApproveError(ApproveRows(pre.features, seq.features + 1, last.args[2])))

\* An approval of a suggestion the same user has approved before.
C23_Witness ==
  /\ Conflict
  /\ \E f \in Target(pre) : f.status = "active" /\ f.is_suggestion

\* ------------------------------------------------------------------ C24
IgnoredBefore ==
  { x \in pre.transcript_feature_suggestions : x.id = last.args[1] }

ArchivedBefore ==
  { f \in pre.features : f.id = last.args[1] /\ f.user_id = last.args[2] }

CreatedAt(transcriptId) ==
  (CHOOSE t \in db.transcripts : t.id = transcriptId).created_at

\* Each transcript is one group and a pain point is in the group of its transcript.
GroupedByTranscript(groups) ==
  /\ \A i, j \in DOMAIN groups :
       groups[i].transcriptId = groups[j].transcriptId => i = j
  /\ \A i \in DOMAIN groups :
       /\ groups[i].painPoints # <<>>
       /\ \A n \in DOMAIN groups[i].painPoints :
            groups[i].painPoints[n].transcript_id = groups[i].transcriptId

\* The most recently created transcript first.
MostRecentFirst(groups) ==
  \A i, j \in DOMAIN groups :
    i < j => CreatedAt(groups[i].transcriptId) >= CreatedAt(groups[j].transcriptId)

\* Inside a group, ascending pain-point id.
AscendingInGroup(groups) ==
  \A i \in DOMAIN groups :
    \A m, n \in DOMAIN groups[i].painPoints :
      m < n => groups[i].painPoints[m].pain_point_id < groups[i].painPoints[n].pain_point_id

\* C25: getFeatureDetails returns the pain points mapped to the name in one
\* group per originating transcript, the groups ordered from the most
\* recently created transcript to the oldest, the pain points of a group by
\* ascending id.
C25_DetailsGroupedByRecency ==
  \A featureName \in Names, userId \in Users :
    LET r == getFeatureDetails(featureName, userId) IN
    ~r.isNull =>
      /\ GroupedByTranscript(r.transcripts)
      /\ MostRecentFirst(r.transcripts)
      /\ AscendingInGroup(r.transcripts)

\* A feature with pain points from two transcripts: the older transcript
\* is the first group.
C25_Witness ==
  \E featureName \in Names, userId \in Users :
    LET r == getFeatureDetails(featureName, userId) IN
    /\ ~r.isNull
    /\ Len(r.transcripts) = 2
    /\ CreatedAt(r.transcripts[1].transcriptId) < CreatedAt(r.transcripts[2].transcriptId)

\* ------------------------------------------------------------------ C26
\* A body the writer must refuse: no transcriptText, an empty one, or no features.
Invalid(body) ==
  \/ ~body.transcriptText.defined
  \/ body.transcriptText.value = ""
  \/ ~body.features.defined

\* C26: a request without transcriptText, with an empty transcriptText or
\* without features is answered 400 before saveTranscript is called: no
\* connection is taken, no transaction is opened, no table changes.
C26_InvalidRequestRejectedFirst ==
  /\ \A body \in Bodies : Invalid(body) => Rejects(body)
  /\ IsCall("POST /api/transcripts") =>
       /\ ~last.ok
       /\ last.ret = 400
       /\ db = pre
       /\ client.log = <<>>
       /\ client.checkedOut = 0

\* A request with an empty transcriptText, refused with transcripts stored.
C26_Witness ==
  /\ IsCall("POST /api/transcripts")
  /\ last.args[1].transcriptText = Present("")
  /\ last.args[1].features.defined
  /\ last.ret = 400
  /\ db.transcripts # {}
  /\ db = pre

\* ------------------------------------------------------------------ C27
\* The mappings of the pain points of the transcript the latest call wrote.
NewMappings ==
  { m \in db.feature_mappings :
      \E pp \in PainPointsOf(db, last.ret) : m.pain_point_id = pp.id }

SuggestionNames == { last.args[3][i].featureName : i \in DOMAIN last.args[3] }

\* The Feature rows of the caller the latest call matched, or created, for
\* a suggestion of that name.
MatchedRows(featureName) ==
  { f \in db.features : /\ f.user_id = last.args[1]
                        /\ <<last.ret, f.id>> \in proposed
                        /\ LOWER(f.feature_name) = LOWER(featureName) }

\* C27: when saveTranscript matches a suggestion to a pending Feature whose
\* stored name differs from the suggestion's only in letter case, the
\* mappings it inserts for the suggestion's quotes carry the stored name,
\* so getFeatureDetails of the stored name returns the new pain points.
C27_MappingCarriesStoredName ==
  Succeeded("saveTranscript") =>
    \A m \in NewMappings :
      m.feature_name \in SuggestionNames =>
        \A f \in MatchedRows(m.feature_name) :
          /\ m.feature_name = f.feature_name
          /\ \E r \in DetailRows(db, f.feature_name, last.args[1]) : r.mapping_id = m.id

\* A suggestion matched to a row stored before the call in another letter
\* case: its mapping carries the suggestion's spelling.
C27_Witness ==
  /\ Succeeded("saveTranscript")
  /\ \E m \in NewMappings :
       \E f \in MatchedRows(m.feature_name) :
         /\ f.id \in { g.id : g \in pre.features }
         /\ m.feature_name # f.feature_name
         /\ \A r \in DetailRows(db, f.feature_name, last.args[1]) : r.mapping_id # m.id

\* ------------------------------------------------------------------ C28
\* The Feature rows the latest call inserted.
Inserted == { f \in db.features : \A g \in pre.features : g.id # f.id }

\* The entries, taken in order, that find no pending row of their name
\* (compared case-insensitively) among the names pending so far.
RECURSIVE Unmatched(_, _)
Unmatched(pending, entries) ==
  IF entries = <<>> THEN 0
  ELSE LET lower == LOWER(Head(entries).featureName) IN
       IF lower \in pending THEN Unmatched(pending, Tail(entries))
       ELSE 1 + Unmatched(pending \cup {lower}, Tail(entries))

PendingLowers(d, userId) ==
  { LOWER(f.feature_name) : f \in { g \in d.features : g.user_id = userId
                                                     /\ g.status = "pending" } }

\* C28: saveTranscript creates and changes Feature rows only for entries
\* of newFeatureSuggestions, never for an entry of features[], and it
\* inserts as many rows as there are suggestions that had no pending match,
\* case-insensitively, for the user when they were processed.
C28_FeaturesOnlyFromSuggestions ==
  Succeeded("saveTranscript") =>
    /\ Cardinality(Inserted) = Unmatched(PendingLowers(pre, last.args[1]), last.args[3])
    /\ \A f \in db.features \ pre.features :
         /\ f.user_id = last.args[1]
         /\ f.status = "pending"
         /\ LOWER(f.feature_name) \in { LOWER(n) : n \in SuggestionNames }
    /\ last.args[3] = <<>> => db.features = pre.features

\* A call with a features[] entry 'Export' and one new suggestion: one row
\* inserted, none named Export, and the Export pain points mapped.
C28_Witness ==
  /\ Succeeded("saveTranscript")
  /\ last.args[2] # <<>>
  /\ Cardinality(Inserted) = 1
  /\ \A f \in db.features : LOWER(f.feature_name) # "export"
  /\ \E m \in NewMappings : m.feature_name = "Export"

\* ------------------------------------------------------------------ C29
EntriesNamed(entries, lower) ==
  Cardinality({ i \in DOMAIN entries : LOWER(entries[i].featureName) = lower })

C30_DedupTouchesOnlyOwnPending ==
  Succeeded("saveTranscript") =>
    \A f \in pre.features :
      (f.status # "pending" \/ f.user_id # last.args[1]) => f \in db.features

\* A suggestion whose name an active row of the same user carries in
\* another letter case: the row is untouched and a pending row is inserted.
C30_Witness ==
  /\ Succeeded("saveTranscript")
  /\ \E f \in pre.features :
       /\ f.status = "active"
       /\ f.user_id = last.args[1]
       /\ LOWER(f.feature_name) \in { LOWER(n) : n \in SuggestionNames }
       /\ f.feature_name \notin SuggestionNames
       /\ f \in db.features
  /\ Inserted # {}

\* ------------------------------------------------------------------ C31
\* Both calls so far are committed saveTranscript calls that matched the
\* stored pending Feature 1.
BothMatched ==
  \A k \in Conns : /\ ~conn[k].open
                   /\ conn[k].outcome = "committed"
                   /\ conn[k].fn = "saveTranscript"
                   /\ conn[k].c.similar = 1

\* C31: when two saveTranscript calls of one user both match the stored
\* pending Feature (count n = 1), then after both have committed its
\* pain_points_count is n + 2, under every interleaving.
C31_NoLostIncrement ==
  BothMatched => \A f \in Row(db.features, 1) : f.pain_points_count = 1 + 2

\* Both calls read the count before either committed: each wrote n + 1.
C31_Witness ==
  /\ BothMatched
  /\ \A k \in Conns : conn[k].c.painPointsCount = 2
  /\ \E f \in Row(db.features, 1) : f.pain_points_count = 2
  /\ Cardinality(db.transcripts) = 3

\* ------------------------------------------------------------------ C32
\* The call of connection k was made while Feature 1 was pending: it
\* committed, or it threw at its UPDATE and c.db still holds the tables it
\* found at BEGIN.
PendingAtBegin(k) ==
  \/ conn[k].outcome = "committed"
  \/ \E f \in Row(conn[k].c.db.features, 1) : f.status = "pending"

\* The latest call of each connection is an approveSuggestion call for the
\* stored Feature by its owner, made while it was pending; both have
\* returned and the database answered throughout.
BothApproved ==
  /\ faults = 0
  /\ \A k \in Conns : /\ ~conn[k].open
                      /\ conn[k].fn = "approveSuggestion"
                      /\ conn[k].args.suggestionId = 1
                      /\ conn[k].args.userId = "default"
                      /\ PendingAtBegin(k)

\* C32: of two concurrent approveSuggestion calls for one pending Feature
\* by the same user exactly one commits, the other throws 'Suggestion not
\* found or already approved' and rolls back, and the row ends active.
C32_ExactlyOneApprovalSucceeds ==
  BothApproved =>
    /\ \E k \in Conns :
         /\ conn[k].outcome = "committed" /\ conn[k].error = "none"
         /\ conn[Peer(k)].outcome = "rolled back"
         /\ conn[Peer(k)].error = "Suggestion not found or already approved"
    /\ \A f \in Row(db.features, 1) : f.status = "active"
    /\ Row(db.features, 1) # {}

\* The second call began while the first was still open, and lost.
C32_Witness ==
  /\ BothApproved
  /\ \E k \in Conns :
       /\ conn[k].outcome = "rolled back"
       /\ conn[k].t = 2
       /\ conn[k].done = 0
       /\ conn[Peer(k)].outcome = "committed"
       /\ last.op = "approveSuggestion" /\ ~last.ok
  /\ \E f \in Row(db.features, 1) : f.status = "active"

\* ------------------------------------------------------------------ C33
\* The mappings of d whose pain point comes from a transcript of a user
\* other than userId.
MappingsOfOthers(d, userId) ==
  { m \in d.feature_mappings :
      \E pp \in d.pain_points : \E t \in d.transcripts :
        /\ pp.id = m.pain_point_id
        /\ t.id = pp.transcript_id
        /\ t.user_id # userId }

\* C33: a successful updateFeature(id, newName, description, userA) leaves
\* every mapping whose pain point comes from a transcript of another user
\* as it was, also when it carries the old name, and leaves every other
\* Feature row of userA that carries the old name with the mappings it had.
C33_RenameTouchesOnlyOwnMappings ==
  Succeeded("updateFeature") =>
    /\ MappingsOfOthers(pre, last.args[4]) \subseteq db.feature_mappings
    /\ \A g \in pre.features :
         ( /\ g.id # last.args[1]
           /\ g.user_id = last.args[4]
           /\ g.feature_name = OldName(last.args[1]) )
         => JoinRows(db, g) = JoinRows(pre, g)

\* A rename by one user that rewrote a mapping of another user's pain point.
C33_Witness ==
  /\ Succeeded("updateFeature")
  /\ OldName(last.args[1]) # last.args[2]
  /\ \E m \in MappingsOfOthers(pre, last.args[4]) :
       /\ m.feature_name = OldName(last.args[1])
       /\ m \notin db.feature_mappings
       /\ [m EXCEPT !.feature_name = last.args[2]] \in db.feature_mappings

\* ------------------------------------------------------------------ C34
\* The tables d without what users other than userId have written.
OnlyOf(d, userId) ==
  LET transcripts == { t \in d.transcripts : t.user_id = userId }
      painPoints  == { pp \in d.pain_points :
                         \E t \in transcripts : t.id = pp.transcript_id }
  IN [d EXCEPT
        !.transcripts = transcripts,
        !.transcript_feature_summaries =
           { x \in @ : \E t \in transcripts : t.id = x.transcript_id },
        !.pain_points = painPoints,
        !.feature_mappings = { m \in @ : \E pp \in painPoints : pp.id = m.pain_point_id },
        !.features = { f \in @ : f.user_id = userId }]

\* C34: getAllFeaturesWithCounts(userA) returns the same features and
\* painPointCount values on the stored tables and on the tables that agree
\* with them on userA's features, transcripts, pain points and mappings and
\* hold nothing of any other user.
C34_CountsIndependentOfOtherUsers ==
  \A userId \in Users :
    FeaturesWithCounts(db, userId) = FeaturesWithCounts(OnlyOf(db, userId), userId)

\* A feature of one user counted higher because another user's transcript
\* maps a pain point to the same name.
C34_Witness ==
  \E userId \in Users :
    \E r \in FeaturesWithCounts(db, userId) :
      \E r2 \in FeaturesWithCounts(OnlyOf(db, userId), userId) :
        /\ r.id = r2.id
        /\ r2.painPointCount >= 1
        /\ r.painPointCount > r2.painPointCount

\* ------------------------------------------------------------------ C35
\* What getFeatureDetails returns when both its queries see the tables d.
DetailsOf(d, featureName, userId) ==
  LET rows == FeatureResult(d, featureName, userId) IN
  IF rows = {}
  THEN [result |-> "null", feature |-> {}, transcripts |-> <<>>]
  ELSE [result |-> "feature", feature |-> rows,
        transcripts |-> GroupByTranscript(OrderRows(DetailRows(d, featureName, userId)))]

Returned ==
  [result |-> reader.result, feature |-> reader.feature, transcripts |-> reader.transcripts]

\* C35: a getFeatureDetails that ran beside at most one updateFeature or
\* deleteTranscript returns the feature and pain-point groups of the tables
\* before that operation or of the tables after it, never a mixture.
C35_DetailsFromOneCommittedState ==
  (reader.result # "none" /\ now <= 1) =>
    \/ Returned = DetailsOf(Seeded.db, reader.featureName, reader.userId)
    \/ Returned = DetailsOf(db, reader.featureName, reader.userId)

\* The feature under its old name with no pain points: the rename
\* committed between the two queries.
C35_Witness ==
  /\ reader.result = "feature"
  /\ now = 1
  /\ reader.featureName = "Slack"
  /\ reader.transcripts = <<>>
  /\ DetailsOf(Seeded.db, "Slack", "default").transcripts # <<>>
  /\ DetailsOf(db, "Slack", "default").result = "null"
  /\ last.op = "updateFeature" /\ last.ok

\* ------------------------------------------------------------------ C36
\* The user of suggestion row x of the tables d.
UserOf(d, x) == { t.user_id : t \in { u \in d.transcripts : u.id = x.transcript_id } }

\* The first successful migration, of tables the two-table writer wrote.
Migrated ==
  /\ Succeeded("migrateFeatureSuggestions")
  /\ mig.trail = <<"migrateFeatureSuggestions">>

\* C36: after Migrate on a database written by the two-table writer there
\* is at most one Feature row with is_suggestion TRUE per user and feature
\* name, also when the deprecated table held several suggestion rows of
\* that name for the user.
C36_OneSuggestionPerUserAndName ==
  Migrated =>
    \A f, g \in db.features :
      ( /\ f.is_suggestion /\ g.is_suggestion
        /\ f.user_id = g.user_id
        /\ f.feature_name = g.feature_name ) => f.id = g.id

\* Two suggestion rows of one name and user, one per transcript: both copied.
C36_Witness ==
  /\ Migrated
  /\ \E x, y \in pre.transcript_feature_suggestions :
       /\ x.id # y.id
       /\ x.feature_name = y.feature_name
       /\ UserOf(pre, x) = UserOf(pre, y)
       /\ \E f, g \in db.features :
            /\ f.id # g.id
            /\ f.is_suggestion /\ g.is_suggestion
            /\ f.feature_name = x.feature_name /\ g.feature_name = x.feature_name
            /\ f.transcript_id = x.transcript_id /\ g.transcript_id = y.transcript_id
            /\ {f.user_id} = UserOf(pre, x) /\ {g.user_id} = UserOf(pre, x)

\* ------------------------------------------------------------------ C37
\* The Feature rows the latest call created.
Created == { f \in db.features : \A g \in pre.features : g.id # f.id }

\* The suggestion rows Feature row f was made of.
SourcesOf(f) ==
  { x \in pre.transcript_feature_suggestions :
      /\ x.transcript_id = f.transcript_id
      /\ x.feature_name = f.feature_name
      /\ x.ai_summary = f.description
      /\ x.pain_points_count = f.pain_points_count }

\* C37: every Feature row Migrate creates has is_suggestion TRUE and the
\* user of its origin transcript, and is active when its source suggestion
\* was 'approved' and pending for every other source status, 'ignored'
\* included.
C37_MigratedRowsStatus ==
  Succeeded("migrateFeatureSuggestions") =>
    \A f \in Created :
      /\ f.is_suggestion = TRUE
      /\ SourcesOf(f) # {}
      /\ \A x \in SourcesOf(f) :
           /\ {f.user_id} = UserOf(pre, x)
           /\ x.status = "approved" => f.status = "active"
           /\ x.status # "approved" => f.status = "pending"

\* A migration that copied an ignored suggestion as pending beside an
\* approved one as active.
C37_Witness ==
  /\ Succeeded("migrateFeatureSuggestions")
  /\ \E f, g \in Created :
       /\ f.status = "pending" /\ \E x \in SourcesOf(f) : x.status = "ignored"
       /\ g.status = "active" /\ \E x \in SourcesOf(g) : x.status = "approved"

EveryTransactionEnds == \A k \in Conns : conn[k].open ~> ~conn[k].open

\* The n-th call, made on connection k, is inside its transaction.
Inside(k, n) == conn[k].open /\ conn[k].t = n

\* The n-th call, made on connection k, has returned or thrown, having
\* issued exactly one of COMMIT and ROLLBACK.
EndedOnce(k, n) == ~conn[k].open /\ conn[k].t = n /\ Len(conn[k].ends) = 1

====
